---- MODULE Spec2Model ----
(***************************************************************************)
(* Authentication and session-trust engine of simple-auth: password login, *)
(* TOTP second factor with trusted devices, lockout counters and the       *)
(* enrollment handlers, modelled on one persisted account document.        *)
(*                                                                         *)
(* Time is the wall clock in minutes.  Every handler runs as one atomic    *)
(* step: it loads the document, mutates the in-memory copy and, where the  *)
(* source calls save(), persists it.  Mutations of the in-memory copy that *)
(* are never followed by save() are lost, as in the source.                *)
(***************************************************************************)
EXTENDS Integers, Sequences, FiniteSets, TLC

\* ------------------------------------------------------------------ bounds
MaxTime == 30
Granularity == 15
MaxGen == 2
MaxMint == 2
MaxFailed == 5
MaxDrift == 3
MaxStreak == 6

\* ------------------------------------------------------- program constants
TwoFactorMaxAttempts == 5
TwoFactorLockMinutes == 15
LoginMaxAttempts == 5
LoginLockMinutes == 30
SetupExpiryMinutes == 10
TotpWindow == 2
BackupCodeCount == 10
RefreshTokenLimit == 5

VARIABLES
  user,      \* the persisted account document
  now,       \* wall clock, minutes
  last,      \* the reply to the most recent request
  genSeq,    \* secrets / backup-code batches generated so far
  tokenSeq,  \* token pairs minted so far
  peer,      \* the active refresh tokens of a second account
  loginHistory, \* the persisted login events of the account, oldest first
  inflight,  \* login requests being handled: the document each has loaded
  obs        \* observers of the request history (not program state)

vars == <<user, now, last, genSeq, tokenSeq, peer, loginHistory, inflight, obs>>

\* ------------------------------------------------------------ value spaces
KnownEmail == "user@example.com"
UnknownEmail == "nobody@example.com"
Emails == {KnownEmail, UnknownEmail}

GoodPassword == "p@ss1234"
BadPassword == "wrong-pw"
Passwords == {GoodPassword, BadPassword}

Clients == {"c1", "c2"}

EncryptionKey == "TWO_FACTOR_ENCRYPTION_KEY"

\* JavaScript undefined/null for dates, secrets and tokens
NoDate == 0 - 1
NoSecret == [iv |-> 0, key |-> "", text |-> 0]
NoToken == [kind |-> "none", secret |-> 0, delta |-> 0, batch |-> 0, idx |-> 0]
\* undefined for a stored hash and for the stored email code
NoHash == <<"undefined", 0>>
NoOtp == 0

\* A submitted second-factor token: absent, a well-formed 6-digit code (the
\* code of secret `secret` for the time step `delta` steps away from the
\* current one), a plaintext backup code <<batch, idx>>, or malformed text.
\* step distances tried: the current step and one outside every window
Drifts == {0, MaxDrift}

TotpTokens ==
  { [kind |-> "totp", secret |-> s, delta |-> d, batch |-> 0, idx |-> 0] :
      s \in 1..MaxGen, d \in Drifts }

BackupTokens ==
  { [kind |-> "backup", secret |-> 0, delta |-> 0, batch |-> b, idx |-> i] :
      b \in 1..MaxGen, i \in {1} }

MalformedToken == [kind |-> "malformed", secret |-> 0, delta |-> 0, batch |-> 0, idx |-> 0]

SubmittedTokens == {MalformedToken} \cup TotpTokens \cup BackupTokens

Tokens == {NoToken} \cup SubmittedTokens

\* totpToken of the login body: a backup code there is just malformed text
LoginTokens == {NoToken, MalformedToken} \cup TotpTokens

\* ------------------------------------------------------------ Secret Codec
encrypt2FASecret(secret, iv) ==
  [iv |-> iv, key |-> EncryptionKey, text |-> secret]

\* variant of decrypt2FASecret that builds its decipher from another key
decrypt2FASecret_WithOtherKey(encryptedSecret) ==
  IF encryptedSecret.key = "JWT_SECRET" THEN encryptedSecret.text ELSE 0

\* 0 stands for the AppError thrown when decryption fails
decrypt2FASecret(encryptedSecret) ==
  IF encryptedSecret.key = EncryptionKey THEN encryptedSecret.text ELSE 0

sha256(code) == <<"sha256", code>>

\* ------------------------------------------------------------- TOTP engine
\* speakeasy.totp.verify: the token must be the code of `secret` for a step
\* in [counter - window, counter + window]
\* variant of totpVerify that accepts the code of any secret
totpVerify_AnySecret(secret, token, window) ==
  /\ secret # 0
  /\ token.delta >= 0 - window
  /\ token.delta <= window

totpVerify(secret, token, window) ==
  /\ secret # 0
  /\ token.secret = secret
  /\ token.delta >= 0 - window
  /\ token.delta <= window

\* variant of verifyTotpToken that accepts whatever was submitted
verifyTotpToken_AcceptingAnything(token, encryptedSecret) ==
  token.kind # "none"

verifyTotpToken(token, encryptedSecret) ==
  IF token.kind = "none" \/ encryptedSecret = NoSecret THEN FALSE
  ELSE IF token.kind # "totp" THEN FALSE
  ELSE totpVerify(decrypt2FASecret(encryptedSecret), token, TotpWindow)

\* variant of generateBackupCodes that produces too few codes
generateBackupCodes_TooFew(batch) ==
  [i \in 1..(BackupCodeCount - 3) |-> [code |-> sha256(<<batch, i>>), used |-> FALSE]]

generateBackupCodes(batch) ==
  [i \in 1..BackupCodeCount |-> [code |-> sha256(<<batch, i>>), used |-> FALSE]]

\* -------------------------------------------------------- device fingerprint
\* sha256 of `${userAgent}-${ipAddress}-${Date.now()}`: two requests of one
\* client get the same fingerprint only when they read the same clock value
generateDeviceId(client, time) == sha256(<<client, time>>)

\* ---------------------------------------------------------- account methods
\* variant of comparePassword that accepts any candidate
comparePassword_AcceptingAnything(u, candidatePassword) ==
  u.password # ""

comparePassword(u, candidatePassword) ==
  IF u.password = "" THEN FALSE ELSE u.password = candidatePassword

isLocked(u) ==
  u.accountLockout.lockUntil # NoDate /\ u.accountLockout.lockUntil > now

handleFailedLogin(u) ==
  LET n == u.accountLockout.failedAttempts + 1
  IN [u EXCEPT !.accountLockout =
        [failedAttempts |-> n,
         lockUntil |-> IF n >= LoginMaxAttempts
                       THEN now + LoginLockMinutes
                       ELSE u.accountLockout.lockUntil]]

resetFailedAttempts(u) ==
  [u EXCEPT !.accountLockout = [failedAttempts |-> 0, lockUntil |-> NoDate]]

isDeviceTrusted(u, deviceId) ==
  \E i \in 1..Len(u.twoFactorAuth.trustedDevices) :
    /\ u.twoFactorAuth.trustedDevices[i].deviceId = deviceId
    /\ u.twoFactorAuth.trustedDevices[i].isActive

\* variant of addTrustedDevice that always adds an entry
addTrustedDevice_AlwaysPushing(u, deviceId) ==
  [u EXCEPT !.twoFactorAuth.trustedDevices =
      Append(@, [deviceId |-> deviceId, lastUsed |-> now, isActive |-> TRUE])]

addTrustedDevice(u, deviceId) ==
  LET devs == u.twoFactorAuth.trustedDevices
      hits == {i \in 1..Len(devs) : devs[i].deviceId = deviceId}
  IN IF hits # {}
     THEN LET i == CHOOSE k \in hits : \A j \in hits : k <= j
          IN [u EXCEPT !.twoFactorAuth.trustedDevices[i] =
                 [deviceId |-> deviceId, lastUsed |-> now, isActive |-> TRUE]]
     ELSE [u EXCEPT !.twoFactorAuth.trustedDevices =
                 Append(devs, [deviceId |-> deviceId, lastUsed |-> now,
                               isActive |-> TRUE])]

handleTwoFactorFailedAttempt(u) ==
  LET n == u.twoFactorAuth.failedAttempts + 1
  IN [u EXCEPT !.twoFactorAuth.failedAttempts = n,
               !.twoFactorAuth.lockUntil =
                  IF n >= TwoFactorMaxAttempts
                  THEN now + TwoFactorLockMinutes
                  ELSE u.twoFactorAuth.lockUntil]

resetTwoFactorFailedAttempts(u) ==
  [u EXCEPT !.twoFactorAuth.failedAttempts = 0,
            !.twoFactorAuth.lockUntil = NoDate]

\* variant of isTwoFactorLocked that never lets a lock run out
isTwoFactorLocked_IgnoringTime(u) ==
  u.twoFactorAuth.lockUntil # NoDate

isTwoFactorLocked(u) ==
  u.twoFactorAuth.lockUntil # NoDate /\ u.twoFactorAuth.lockUntil > now

addRefreshToken(u, token) ==
  LET pushed == Append(u.refreshTokens, [token |-> token])
  IN [u EXCEPT !.refreshTokens =
        IF Len(pushed) > RefreshTokenLimit
        THEN SubSeq(pushed, Len(pushed) - RefreshTokenLimit + 1, Len(pushed))
        ELSE pushed]

\* save(): the timestamps option stamps updatedAt on every persisted write
save(u) == [u EXCEPT !.updatedAt = now]

\* -------------------------------------------------------------- token issuer
generateTokens(seq) == [accessToken |-> seq + 1, refreshToken |-> seq + 1]

\* ------------------------------------------------------------------ replies
Reply(op, status, msg, tokens) ==
  [op |-> op, status |-> status, msg |-> msg, tokens |-> tokens]

\* ------------------------------------------------------------ second account
\* refresh tokens issued to the second account, oldest first
PeerTokens == {0 - 101, 0 - 102}

PeerSessions == <<[token |-> 0 - 101], [token |-> 0 - 102]>>

\* ------------------------------------------------------------ initial state
EmptyTwoFactorAuth ==
  [isEnabled |-> FALSE, secret |-> NoSecret, tempSecret |-> NoSecret,
   backupCodes |-> <<>>, trustedDevices |-> <<>>,
   failedAttempts |-> 0, lockUntil |-> NoDate]

Init ==
  /\ user \in { [password |-> GoodPassword, isVerified |-> v,
                 accountStatus |-> "active",
                 accountLockout |-> [failedAttempts |-> 0, lockUntil |-> NoDate],
                 twoFactorAuth |-> EmptyTwoFactorAuth,
                 refreshTokens |-> <<>>,
                 updatedAt |-> 0,
                 passwordChangedAt |-> 0,
                 resetPasswordToken |-> NoHash, resetPasswordExpires |-> NoDate,
                 otpCode |-> NoOtp, otpExpiresAt |-> NoDate] : v \in BOOLEAN }
  /\ now = 0
  /\ last = Reply("none", 0, "", 0)
  /\ genSeq = 0
  /\ tokenSeq = 0
  /\ peer = PeerSessions
  /\ loginHistory = <<>>
  /\ inflight = <<>>
  /\ obs = [wrongStreak |-> 0, lockedAt |-> NoDate, checkpoint |-> FALSE,
            startedAt |-> NoDate, failedCodes |-> 0, shown |-> 0,
            iat |-> <<>>, mailedAt |-> NoDate, changedWith |-> 0,
            accepted |-> 0, overlapped |-> FALSE, mailed |-> 0]

\* -------------------------------------------------------------------- clock
Tick ==
  /\ now + Granularity <= MaxTime
  /\ now' = now + Granularity
  /\ UNCHANGED <<user, last, genSeq, tokenSeq, peer, loginHistory, inflight, obs>>

\* variants of requiresSecondFactor: one that ignores the enabled flag, one
\* that never demands the second factor
requiresSecondFactor_IgnoringEnabled(u, deviceId) ==
  ~isDeviceTrusted(u, deviceId)

requiresSecondFactor_Never(u, deviceId) ==
  FALSE

\* STEP 4 of login: the second factor is demanded when it is enabled and the
\* fingerprint of this request is not an active trusted device
requiresSecondFactor(u, deviceId) ==
  u.twoFactorAuth.isEnabled /\ ~isDeviceTrusted(u, deviceId)

\* ------------------------------------------------- Login Orchestrator (2FA)
\* POST /api/auth/login, body {email, password, totpToken, trustDevice}
login(email, password, totpToken, trustDevice, client) ==
  LET deviceId == generateDeviceId(client, now)
      isValidToken == verifyTotpToken(totpToken, user.twoFactorAuth.secret)
      verified == resetTwoFactorFailedAttempts(user)
      trusting == IF trustDevice THEN addTrustedDevice(verified, deviceId)
                  ELSE verified
      passed == IF requiresSecondFactor(user, deviceId) THEN trusting ELSE user
      tokens == generateTokens(tokenSeq)
  IN
  IF email = "" \/ password = ""
  THEN /\ last' = Reply("login", 400, "Please provide email and password", 0)
       /\ UNCHANGED <<user, now, genSeq, tokenSeq>>
  ELSE IF email # KnownEmail
  THEN /\ last' = Reply("login", 401, "Invalid email or password", 0)
       /\ UNCHANGED <<user, now, genSeq, tokenSeq>>
  ELSE IF ~comparePassword(user, password)
  THEN \* recordLogin(req, false, ...) only touches the in-memory copy
       /\ last' = Reply("login", 401, "Invalid email or password", 0)
       /\ UNCHANGED <<user, now, genSeq, tokenSeq>>
  ELSE IF requiresSecondFactor(user, deviceId) /\ totpToken.kind = "none"
  THEN /\ last' = Reply("login", 200, "Two-factor authentication required", 0)
       /\ UNCHANGED <<user, now, genSeq, tokenSeq>>
  ELSE IF requiresSecondFactor(user, deviceId) /\ ~isValidToken
  THEN /\ user.twoFactorAuth.failedAttempts < MaxFailed
       /\ user' = save(handleTwoFactorFailedAttempt(user))
       /\ last' = Reply("login", 401, "Invalid two-factor authentication code", 0)
       /\ UNCHANGED <<now, genSeq, tokenSeq>>
  ELSE /\ tokenSeq < MaxMint
       \* user.refreshTokens.push(refreshToken): the bare string is pushed,
       \* so the stored element carries no `token` field (0)
       /\ user' = save([passed EXCEPT !.refreshTokens = Append(@, [token |-> 0])])
       /\ tokenSeq' = tokens.refreshToken
       /\ last' = Reply("login", 200, "Login successful", tokens.refreshToken)
       /\ UNCHANGED <<now, genSeq>>

\* ------------------------------------------ Login Orchestrator (password only)
\* POST /api/auth/login, body {email, password}
loginPasswordOnly(email, password) ==
  LET tokens == generateTokens(tokenSeq)
  IN
  IF email = "" \/ password = ""
  THEN /\ last' = Reply("loginPasswordOnly", 400, "Email and Password are required", 0)
       /\ UNCHANGED <<user, now, genSeq, tokenSeq>>
  ELSE IF email # KnownEmail
  THEN /\ last' = Reply("loginPasswordOnly", 401, "Invalid email or password", 0)
       /\ UNCHANGED <<user, now, genSeq, tokenSeq>>
  ELSE IF ~user.isVerified
  THEN /\ last' = Reply("loginPasswordOnly", 401,
                        "Account not verified. Please verify your email.", 0)
       /\ UNCHANGED <<user, now, genSeq, tokenSeq>>
  ELSE IF ~comparePassword(user, password)
  THEN /\ last' = Reply("loginPasswordOnly", 401, "Invalid email or password", 0)
       /\ UNCHANGED <<user, now, genSeq, tokenSeq>>
  ELSE /\ tokenSeq < MaxMint
       /\ user' = save(addRefreshToken(save(user), tokens.refreshToken))
       /\ tokenSeq' = tokens.refreshToken
       /\ last' = Reply("loginPasswordOnly", 200, "Login successful!", tokens.refreshToken)
       /\ UNCHANGED <<now, genSeq>>

\* ---------------------------------------------------- protected endpoints
\* protect + checkAccountStatus: the caller presents an access token issued
\* to the account and the account is active
Authenticated == tokenSeq > 0 /\ user.accountStatus = "active"

\* variant of ControllerScope with a hashBackupCode helper imported
ControllerScope_WithHashBackupCode ==
  {"User", "AppError", "generateTwoFactorSecret", "verifyTotpToken",
   "encryptSecret", "isTwoFactorSetupExpired", "hashBackupCode"}

\* identifiers bound in twoFactor.controller.js (its import list); reading
\* any other free identifier throws a ReferenceError
ControllerScope ==
  {"User", "AppError", "generateTwoFactorSecret", "verifyTotpToken",
   "encryptSecret", "isTwoFactorSetupExpired"}

InScope(identifier) == identifier \in ControllerScope

\* ---------------------------------------------------- Enrollment Orchestrator
\* POST /api/2fa/enable
enable2FA ==
  /\ Authenticated
  /\ IF user.twoFactorAuth.isEnabled
     THEN /\ last' = Reply("enable2FA", 400,
                           "Two-factor authentication is already enabled", 0)
          /\ UNCHANGED <<user, now, genSeq, tokenSeq>>
     ELSE /\ genSeq < MaxGen
          /\ genSeq' = genSeq + 1
          /\ user' = save([user EXCEPT
                 !.twoFactorAuth.tempSecret = encrypt2FASecret(genSeq + 1, genSeq + 1),
                 !.twoFactorAuth.backupCodes = generateBackupCodes(genSeq + 1)])
          /\ last' = Reply("enable2FA", 200,
                 "Scan the QR code with your authenticator app, then verify with a code", 0)
          /\ UNCHANGED <<now, tokenSeq>>

isTwoFactorSetupExpired(u) ==
  IF u.twoFactorAuth.tempSecret = NoSecret THEN TRUE
  ELSE now - u.updatedAt > SetupExpiryMinutes

\* variant of activateTwoFactor that leaves the pending secret in place
activateTwoFactor_KeepingPending(u) ==
  [u EXCEPT !.twoFactorAuth.isEnabled = TRUE,
            !.twoFactorAuth.secret = u.twoFactorAuth.tempSecret,
            !.twoFactorAuth.failedAttempts = 0,
            !.twoFactorAuth.lockUntil = NoDate]

\* ACTIVATE 2FA: the pending secret becomes the permanent one
activateTwoFactor(u) ==
  [u EXCEPT !.twoFactorAuth.isEnabled = TRUE,
            !.twoFactorAuth.secret = u.twoFactorAuth.tempSecret,
            !.twoFactorAuth.tempSecret = NoSecret,
            !.twoFactorAuth.failedAttempts = 0,
            !.twoFactorAuth.lockUntil = NoDate]

\* POST /api/2fa/verify
verify2FASetup(token) ==
  /\ Authenticated
  /\ IF token.kind = "none"
     THEN /\ last' = Reply("verify2FASetup", 400, "Please provide a verification token", 0)
          /\ UNCHANGED <<user, now, genSeq, tokenSeq>>
     ELSE IF user.twoFactorAuth.tempSecret = NoSecret
     THEN /\ last' = Reply("verify2FASetup", 400,
                           "No 2FA setup in progress. Please start setup first.", 0)
          /\ UNCHANGED <<user, now, genSeq, tokenSeq>>
     ELSE IF isTwoFactorSetupExpired(user)
     THEN /\ user' = save([user EXCEPT !.twoFactorAuth.tempSecret = NoSecret,
                                       !.twoFactorAuth.backupCodes = <<>>])
          /\ last' = Reply("verify2FASetup", 400,
                           "2FA setup has expired. Please start setup again.", 0)
          /\ UNCHANGED <<now, genSeq, tokenSeq>>
     ELSE IF ~verifyTotpToken(token, user.twoFactorAuth.tempSecret)
     THEN /\ last' = Reply("verify2FASetup", 400,
                           "Invalid verification code. Please try again.", 0)
          /\ UNCHANGED <<user, now, genSeq, tokenSeq>>
     ELSE /\ user' = save(activateTwoFactor(user))
          /\ last' = Reply("verify2FASetup", 200,
                 "Two-factor authentication has been successfully enabled", 0)
          /\ UNCHANGED <<now, genSeq, tokenSeq>>

\* variant of clearTwoFactorData that clears what the account's own disable
\* method clears: the flag, the secret and the backup codes
clearTwoFactorData_FlagSecretCodesOnly(u) ==
  [u EXCEPT !.twoFactorAuth.isEnabled = FALSE,
            !.twoFactorAuth.secret = NoSecret,
            !.twoFactorAuth.backupCodes = <<>>]

\* Disable 2FA - clear all 2FA data
clearTwoFactorData(u) ==
  [u EXCEPT !.twoFactorAuth = EmptyTwoFactorAuth]

\* DELETE /api/2fa/disable
disable2FA(password, confirmationCode) ==
  /\ Authenticated
  /\ IF password = ""
     THEN /\ last' = Reply("disable2FA", 400, "Please provide your current password", 0)
          /\ UNCHANGED <<user, now, genSeq, tokenSeq>>
     ELSE IF ~user.twoFactorAuth.isEnabled
     THEN /\ last' = Reply("disable2FA", 400, "Two-factor authentication is not enabled", 0)
          /\ UNCHANGED <<user, now, genSeq, tokenSeq>>
     ELSE IF ~comparePassword(user, password)
     THEN /\ last' = Reply("disable2FA", 401, "Invalid password. Cannot disable 2FA.", 0)
          /\ UNCHANGED <<user, now, genSeq, tokenSeq>>
     ELSE IF /\ confirmationCode.kind # "none"
             /\ ~verifyTotpToken(confirmationCode, user.twoFactorAuth.secret)
     THEN /\ last' = Reply("disable2FA", 401,
                           "Invalid confirmation code. Cannot disable 2FA.", 0)
          /\ UNCHANGED <<user, now, genSeq, tokenSeq>>
     ELSE /\ user' = save(clearTwoFactorData(user))
          /\ last' = Reply("disable2FA", 200,
                           "Two-factor authentication has been disabled", 0)
          /\ UNCHANGED <<now, genSeq, tokenSeq>>

\* variant of replaceBackupCodes that adds the new codes after the old ones
replaceBackupCodes_KeepingOld(u, hashedBackupCodes) ==
  [u EXCEPT !.twoFactorAuth.backupCodes = @ \o hashedBackupCodes]

\* Replace old backup codes with new ones
replaceBackupCodes(u, hashedBackupCodes) ==
  [u EXCEPT !.twoFactorAuth.backupCodes = hashedBackupCodes]

\* POST /api/2fa/backup-codes/regenerate
regenerateBackupCodes(password) ==
  /\ Authenticated
  /\ IF password = ""
     THEN /\ last' = Reply("regenerateBackupCodes", 400,
                           "Please provide your current password", 0)
          /\ UNCHANGED <<user, now, genSeq, tokenSeq>>
     ELSE IF ~user.twoFactorAuth.isEnabled
     THEN /\ last' = Reply("regenerateBackupCodes", 400,
                           "Two-factor authentication is not enabled", 0)
          /\ UNCHANGED <<user, now, genSeq, tokenSeq>>
     ELSE IF ~comparePassword(user, password)
     THEN /\ last' = Reply("regenerateBackupCodes", 401, "Invalid password", 0)
          /\ UNCHANGED <<user, now, genSeq, tokenSeq>>
     ELSE /\ genSeq < MaxGen
          /\ genSeq' = genSeq + 1
          /\ user' = save(replaceBackupCodes(user, generateBackupCodes(genSeq + 1)))
          /\ last' = Reply("regenerateBackupCodes", 200,
                           "New backup codes generated successfully", 0)
          /\ UNCHANGED <<now, tokenSeq>>

\* ------------------------------------------------- 2FA login-completion step
\* POST /api/2fa/verify-login, body {tempUserId, twoFactorToken, trustDevice}
verify2FALogin(tempUserId, twoFactorToken, trustDevice) ==
  LET codes == user.twoFactorAuth.backupCodes
      totpOk == verifyTotpToken(twoFactorToken, user.twoFactorAuth.secret)
      \* findIndex((bc) => !bc.used && bc.code === hashBackupCode(token)):
      \* the callback reads hashBackupCode at the first unused code
      lookupThrows ==
        /\ ~InScope("hashBackupCode")
        /\ \E i \in 1..Len(codes) : ~codes[i].used
      matches == {i \in 1..Len(codes) :
                    /\ ~codes[i].used
                    /\ twoFactorToken.kind = "backup"
                    /\ codes[i].code = sha256(<<twoFactorToken.batch, twoFactorToken.idx>>)}
      backupCodeIndex == IF matches = {} THEN 0
                         ELSE CHOOSE k \in matches : \A j \in matches : k <= j
      isValidToken == totpOk \/ backupCodeIndex # 0
      marked == IF ~totpOk /\ backupCodeIndex # 0
                THEN [user EXCEPT !.twoFactorAuth.backupCodes[backupCodeIndex].used = TRUE]
                ELSE user
      failed == [user EXCEPT !.twoFactorAuth.failedAttempts = @ + 1]
      verified == resetTwoFactorFailedAttempts(marked)
      tokens == generateTokens(tokenSeq)
  IN
  IF tempUserId = "" \/ twoFactorToken.kind = "none"
  THEN /\ last' = Reply("verify2FALogin", 400,
                        "Please provide tempUserId and twoFactorToken", 0)
       /\ UNCHANGED <<user, now, genSeq, tokenSeq>>
  ELSE IF tempUserId # KnownEmail
  THEN /\ last' = Reply("verify2FALogin", 404, "User not found", 0)
       /\ UNCHANGED <<user, now, genSeq, tokenSeq>>
  ELSE IF ~user.twoFactorAuth.isEnabled
  THEN /\ last' = Reply("verify2FALogin", 400, "2FA is not enabled for this user", 0)
       /\ UNCHANGED <<user, now, genSeq, tokenSeq>>
  ELSE IF user.accountStatus # "active"
  THEN /\ last' = Reply("verify2FALogin", 401,
                        "Account is not active. Please contact support.", 0)
       /\ UNCHANGED <<user, now, genSeq, tokenSeq>>
  ELSE IF ~totpOk /\ lookupThrows
  THEN /\ last' = Reply("verify2FALogin", 500, "2FA verification failed", 0)
       /\ UNCHANGED <<user, now, genSeq, tokenSeq>>
  ELSE IF ~isValidToken
  THEN /\ user.twoFactorAuth.failedAttempts < MaxFailed
       /\ IF failed.twoFactorAuth.failedAttempts >= TwoFactorMaxAttempts
          THEN /\ user' = save([failed EXCEPT !.twoFactorAuth.lockUntil =
                                              now + TwoFactorLockMinutes])
               /\ last' = Reply("verify2FALogin", 423,
                    "Account locked due to too many failed 2FA attempts. Try again in 15 minutes.", 0)
          ELSE /\ user' = save(failed)
               /\ last' = Reply("verify2FALogin", 401, "Invalid 2FA token", 0)
       /\ UNCHANGED <<now, genSeq, tokenSeq>>
  ELSE IF trustDevice /\ ~InScope("mongoose")
  THEN \* new mongoose.Types.ObjectId() throws before anything is saved
       /\ last' = Reply("verify2FALogin", 500, "2FA verification failed", 0)
       /\ UNCHANGED <<user, now, genSeq, tokenSeq>>
  ELSE /\ tokenSeq < MaxMint
       /\ user' = save(IF trustDevice
                       THEN [verified EXCEPT !.twoFactorAuth.trustedDevices =
                               Append(@, [deviceId |-> sha256(<<"ObjectId", now>>),
                                          lastUsed |-> now, isActive |-> TRUE])]
                       ELSE verified)
       /\ tokenSeq' = tokens.refreshToken
       /\ last' = Reply("verify2FALogin", 200,
                        "Login successful with 2FA verification", tokens.refreshToken)
       /\ UNCHANGED <<now, genSeq>>

\* ------------------------------------------------------------- the requests
\* Request bodies tried.  A handler that rejects a request at its account
\* lookup or password check reads nothing else of the body, so one body
\* stands for all that are rejected there.
LoginRequests ==
  { [email |-> KnownEmail, password |-> p, totpToken |-> t,
     trustDevice |-> d, client |-> c] :
      p \in {GoodPassword}, t \in LoginTokens, d \in BOOLEAN, c \in Clients }
  \cup
  { [email |-> e, password |-> p, totpToken |-> NoToken,
     trustDevice |-> FALSE, client |-> c] :
      e \in Emails, p \in Passwords, c \in {"c1"} }

DisableRequests ==
  { [password |-> GoodPassword, confirmationCode |-> t] : t \in Tokens }
  \cup { [password |-> BadPassword, confirmationCode |-> NoToken] }

VerifyLoginRequests ==
  { [tempUserId |-> KnownEmail, twoFactorToken |-> t, trustDevice |-> d] :
      t \in SubmittedTokens, d \in BOOLEAN }
  \cup { [tempUserId |-> UnknownEmail, twoFactorToken |-> MalformedToken,
          trustDevice |-> FALSE] }

Login ==
  /\ \E r \in LoginRequests :
       login(r.email, r.password, r.totpToken, r.trustDevice, r.client)
  /\ UNCHANGED <<peer, loginHistory, inflight, obs>>

LoginPasswordOnly ==
  /\ \E email \in Emails, password \in Passwords :
       loginPasswordOnly(email, password)
  /\ UNCHANGED <<peer, loginHistory, inflight, obs>>

Enable2FA == enable2FA /\ UNCHANGED <<peer, loginHistory, inflight, obs>>

Verify2FASetup ==
  /\ \E token \in SubmittedTokens : verify2FASetup(token)
  /\ UNCHANGED <<peer, loginHistory, inflight, obs>>

Disable2FA ==
  /\ \E r \in DisableRequests : disable2FA(r.password, r.confirmationCode)
  /\ UNCHANGED <<peer, loginHistory, inflight, obs>>

RegenerateBackupCodes ==
  /\ \E password \in Passwords : regenerateBackupCodes(password)
  /\ UNCHANGED <<peer, loginHistory, inflight, obs>>

Verify2FALogin ==
  /\ \E r \in VerifyLoginRequests :
       verify2FALogin(r.tempUserId, r.twoFactorToken, r.trustDevice)
  /\ UNCHANGED <<peer, loginHistory, inflight, obs>>

\* The service with the two-factor login handler on POST /api/auth/login
Next ==
  \/ Tick
  \/ Login
  \/ Enable2FA
  \/ Verify2FASetup
  \/ Disable2FA
  \/ RegenerateBackupCodes
  \/ Verify2FALogin

Spec == Init /\ [][Next]_vars

\* The service with the password-only login handler on POST /api/auth/login
NextPasswordOnly ==
  \/ Tick
  \/ LoginPasswordOnly
  \/ Enable2FA
  \/ Verify2FASetup
  \/ Disable2FA
  \/ RegenerateBackupCodes
  \/ Verify2FALogin

SpecPasswordOnly == Init /\ [][NextPasswordOnly]_vars

\* ---------------------------------------------------------------- observers
\* wrongStreak: wrong-password logins for the account since its last
\* AuthenticatedSession.  lockedAt: the time of the wrong-password login that
\* brought the streak to the threshold.  checkpoint: some login has answered
\* SecondFactorRequired, i.e. a password was verified for a pending 2FA flow.
\* startedAt is kept by Enable2FAStarted below.
LoginCounted ==
  \E r \in LoginRequests :
    /\ login(r.email, r.password, r.totpToken, r.trustDevice, r.client)
    /\ UNCHANGED <<peer, loginHistory, inflight>>
    /\ IF r.email = KnownEmail /\ r.password # user.password
       THEN /\ obs.wrongStreak < MaxStreak
            /\ obs' = [obs EXCEPT !.wrongStreak = @ + 1,
                                  !.lockedAt = IF obs.wrongStreak + 1 = LoginMaxAttempts
                                               THEN now ELSE @]
       ELSE IF tokenSeq' # tokenSeq
       THEN obs' = [obs EXCEPT !.wrongStreak = 0, !.lockedAt = NoDate]
       ELSE UNCHANGED obs

NextLockout ==
  \/ Tick
  \/ LoginCounted

SpecLockout == Init /\ [][NextLockout]_vars

LoginFlow ==
  \E r \in LoginRequests :
    /\ login(r.email, r.password, r.totpToken, r.trustDevice, r.client)
    /\ UNCHANGED <<peer, loginHistory, inflight>>
    /\ IF /\ r.email = KnownEmail
          /\ r.password = user.password
          /\ last'.msg = "Two-factor authentication required"
       THEN obs' = [obs EXCEPT !.checkpoint = TRUE]
       ELSE UNCHANGED obs

NextFlow ==
  \/ Tick
  \/ LoginFlow
  \/ Enable2FA
  \/ Verify2FASetup
  \/ Disable2FA
  \/ RegenerateBackupCodes
  \/ Verify2FALogin

SpecFlow == Init /\ [][NextFlow]_vars

\* startedAt: the time of the enable2FA request that issued the pending secret
Enable2FAStarted ==
  /\ enable2FA
  /\ UNCHANGED <<peer, loginHistory, inflight>>
  /\ IF genSeq' # genSeq
     THEN obs' = [obs EXCEPT !.startedAt = now]
     ELSE UNCHANGED obs

NextEnrollment ==
  \/ Tick
  \/ Login
  \/ Enable2FAStarted
  \/ Verify2FASetup

SpecEnrollment == Init /\ [][NextEnrollment]_vars

\* ------------------------------------------------------------ session tokens
\* refresh tokens the account holds from logins made before the first
\* request considered, oldest first
EarlierSessions(n) == [i \in 1..n |-> [token |-> i - n - 1]]

\* req.body.refreshToken left out
NoRefreshToken == 0

\* a string that is not a token signed with the refresh secret
ForgedToken == 0 - 999

\* refresh tokens a client can present: one of an earlier login, one minted
\* since, one of the second account, a forged one, or none
PresentedTokens ==
  {NoRefreshToken, ForgedToken} \cup PeerTokens
    \cup { t \in (0 - RefreshTokenLimit)..MaxMint : t # 0 }

\* jwtService.verifyRefreshToken: the account named by the claims of a
\* token signed with the refresh secret; "throws" for any other string
verifyRefreshToken(token) ==
  IF token = ForgedToken THEN "throws"
  ELSE IF token \in PeerTokens THEN "peer"
  ELSE "user"

\* jwtService.generateAccessToken
generateAccessToken(seq) == generateTokens(seq).accessToken

\* variant of tokenExists that trusts the signature alone
tokenExists_SignatureOnly(refreshTokens, token) ==
  TRUE

\* refreshTokens.some((t) => t.token === refreshToken)
tokenExists(refreshTokens, token) ==
  \E i \in 1..Len(refreshTokens) : refreshTokens[i].token = token

\* variant of removeRefreshToken that drops every token of the account
removeRefreshToken_All(refreshTokens, token) ==
  <<>>

\* refreshTokens.filter((t) => t.token !== refreshToken)
removeRefreshToken(refreshTokens, token) ==
  SelectSeq(refreshTokens, LAMBDA t : t.token # token)

\* POST /api/auth/logout, body {refreshToken}
logout(token) ==
  IF token = NoRefreshToken
  THEN /\ last' = Reply("logout", 400, "Refresh token is required", 0)
       /\ UNCHANGED <<user, peer, now, genSeq, tokenSeq>>
  ELSE /\ last' = Reply("logout", 200, "Logged out successfully", 0)
       /\ UNCHANGED <<now, genSeq, tokenSeq>>
       \* User.findOne({ "refreshTokens.token": refreshToken })
       /\ IF tokenExists(user.refreshTokens, token)
          THEN /\ user' = save([user EXCEPT !.refreshTokens =
                                  removeRefreshToken(@, token)])
               /\ UNCHANGED peer
          ELSE IF tokenExists(peer, token)
          THEN /\ peer' = removeRefreshToken(peer, token)
               /\ UNCHANGED user
          ELSE UNCHANGED <<user, peer>>

\* POST /api/auth/refresh-token, body {refreshToken}
refreshToken(token) ==
  LET owner == verifyRefreshToken(token)
      held == IF owner = "peer" THEN peer ELSE user.refreshTokens
  IN
  /\ UNCHANGED <<user, peer, now, genSeq, tokenSeq>>
  /\ IF token = NoRefreshToken
     THEN last' = Reply("refreshToken", 400, "Refresh token is required", 0)
     ELSE IF owner = "throws"
     THEN last' = Reply("refreshToken", 401, "Token refresh failed.", 0)
     ELSE IF ~tokenExists(held, token)
     THEN last' = Reply("refreshToken", 401, "Invalid Refresh Token", 0)
     ELSE last' = Reply("refreshToken", 200, "Token refreshed successfully",
                        generateAccessToken(tokenSeq))

\* variant of invalidateRefreshTokens that keeps the tokens
invalidateRefreshTokens_KeepingThem(u) ==
  u

\* user.refreshTokens = []
invalidateRefreshTokens(u) ==
  [u EXCEPT !.refreshTokens = <<>>]

\* PUT /api/users/change-password
changePassword(currentPassword, newPassword, confirmPassword) ==
  LET tokens == generateTokens(tokenSeq)
      changed == save(invalidateRefreshTokens(
                   [user EXCEPT !.password = newPassword,
                                !.passwordChangedAt = now]))
  IN
  /\ Authenticated
  /\ UNCHANGED <<peer, now, genSeq>>
  /\ IF currentPassword = "" \/ newPassword = "" \/ confirmPassword = ""
     THEN /\ last' = Reply("changePassword", 400,
                 "Current password, new password, and confirm password are required", 0)
          /\ UNCHANGED <<user, tokenSeq>>
     ELSE IF newPassword # confirmPassword
     THEN /\ last' = Reply("changePassword", 400,
                 "New password and confirm password do not match", 0)
          /\ UNCHANGED <<user, tokenSeq>>
     ELSE IF currentPassword = newPassword
     THEN /\ last' = Reply("changePassword", 400,
                 "New password cannot be the same as the current password", 0)
          /\ UNCHANGED <<user, tokenSeq>>
     ELSE IF ~comparePassword(user, currentPassword)
     THEN /\ last' = Reply("changePassword", 400, "Current password is incorrect", 0)
          /\ UNCHANGED <<user, tokenSeq>>
     ELSE /\ tokenSeq < MaxMint
          /\ user' = save(addRefreshToken(changed, tokens.refreshToken))
          /\ tokenSeq' = tokens.refreshToken
          /\ last' = Reply("changePassword", 200,
                 "Password changed successfully. All devices have been logged out for security.",
                 tokens.refreshToken)

Logout ==
  /\ \E token \in PresentedTokens : token <= tokenSeq /\ logout(token)
  /\ UNCHANGED <<loginHistory, inflight, obs>>

RefreshToken ==
  /\ \E token \in PresentedTokens : token <= tokenSeq /\ refreshToken(token)
  /\ UNCHANGED <<loginHistory, inflight, obs>>

ChangePassword ==
  /\ \E currentPassword \in Passwords, newPassword \in Passwords,
        confirmPassword \in Passwords :
       changePassword(currentPassword, newPassword, confirmPassword)
  /\ UNCHANGED <<loginHistory, inflight, obs>>

\* the account as the first request finds it: no session yet, or the
\* sessions of earlier logins
InitSession ==
  /\ user \in { [password |-> GoodPassword, isVerified |-> v,
                 accountStatus |-> "active",
                 accountLockout |-> [failedAttempts |-> 0, lockUntil |-> NoDate],
                 twoFactorAuth |-> EmptyTwoFactorAuth,
                 refreshTokens |-> EarlierSessions(n),
                 updatedAt |-> 0,
                 passwordChangedAt |-> 0,
                 resetPasswordToken |-> NoHash, resetPasswordExpires |-> NoDate,
                 otpCode |-> NoOtp, otpExpiresAt |-> NoDate] :
                 v \in BOOLEAN,
                 n \in {0, RefreshTokenLimit - 1, RefreshTokenLimit} }
  /\ now = 0
  /\ last = Reply("none", 0, "", 0)
  /\ genSeq = 0
  /\ tokenSeq = 0
  /\ peer = PeerSessions
  /\ loginHistory = <<>>
  /\ inflight = <<>>
  /\ obs = [wrongStreak |-> 0, lockedAt |-> NoDate, checkpoint |-> FALSE,
            startedAt |-> NoDate, failedCodes |-> 0, shown |-> 0,
            iat |-> <<>>, mailedAt |-> NoDate, changedWith |-> 0,
            accepted |-> 0, overlapped |-> FALSE, mailed |-> 0]

\* Session endpoints with the password-only login
NextSession ==
  \/ LoginPasswordOnly
  \/ Logout
  \/ RefreshToken
  \/ ChangePassword

SpecSession == InitSession /\ [][NextSession]_vars

\* refresh-token entries left by earlier logins through the two-factor
\* login, which pushes the bare token string
EarlierLogins(n) == [i \in 1..n |-> [token |-> 0]]

InitSessionTwoFactor ==
  /\ user \in { [password |-> GoodPassword, isVerified |-> v,
                 accountStatus |-> "active",
                 accountLockout |-> [failedAttempts |-> 0, lockUntil |-> NoDate],
                 twoFactorAuth |-> EmptyTwoFactorAuth,
                 refreshTokens |-> EarlierLogins(n),
                 updatedAt |-> 0,
                 passwordChangedAt |-> 0,
                 resetPasswordToken |-> NoHash, resetPasswordExpires |-> NoDate,
                 otpCode |-> NoOtp, otpExpiresAt |-> NoDate] :
                 v \in BOOLEAN,
                 n \in {0, RefreshTokenLimit - 1, RefreshTokenLimit} }
  /\ now = 0
  /\ last = Reply("none", 0, "", 0)
  /\ genSeq = 0
  /\ tokenSeq = 0
  /\ peer = PeerSessions
  /\ loginHistory = <<>>
  /\ inflight = <<>>
  /\ obs = [wrongStreak |-> 0, lockedAt |-> NoDate, checkpoint |-> FALSE,
            startedAt |-> NoDate, failedCodes |-> 0, shown |-> 0,
            iat |-> <<>>, mailedAt |-> NoDate, changedWith |-> 0,
            accepted |-> 0, overlapped |-> FALSE, mailed |-> 0]

\* Session endpoints with the two-factor login
NextSessionTwoFactor ==
  \/ Login
  \/ Logout
  \/ RefreshToken
  \/ ChangePassword

SpecSessionTwoFactor == InitSessionTwoFactor /\ [][NextSessionTwoFactor]_vars

\* ------------------------------------------------------------ login history
LoginHistoryLimit == 20

\* login events recorded before the first request considered, oldest first
EarlierEvents(n) ==
  [i \in 1..n |-> [success |-> TRUE, failureReason |-> "Login successful",
                   timestamp |-> i - n - 1]]

\* variant of recordLogin that never drops an event
recordLogin_Unbounded(history, success, failureReason) ==
  Append(history, [success |-> success,
                   failureReason |-> failureReason,
                   timestamp |-> now])

\* *** Record Login Attempt ***: push, then keep only the last 20
recordLogin(history, success, failureReason) ==
  LET pushed == Append(history, [success |-> success,
                                 failureReason |-> failureReason,
                                 timestamp |-> now])
  IN IF Len(pushed) > LoginHistoryLimit
     THEN SubSeq(pushed, Len(pushed) - LoginHistoryLimit + 1, Len(pushed))
     ELSE pushed

\* login with its login events.  recordLogin changes the loaded document;
\* the event is persisted only where a save() follows it, which is the
\* success path alone (recordLogin, then save).  After a wrong password and
\* after 'two-factor required' nothing is saved; after an invalid code the
\* save comes before recordLogin.
LoginRecorded ==
  /\ \E r \in LoginRequests :
       /\ login(r.email, r.password, r.totpToken, r.trustDevice, r.client)
       /\ loginHistory' =
            IF tokenSeq' # tokenSeq
            THEN recordLogin(loginHistory, TRUE, "Login successful")
            ELSE loginHistory
  /\ UNCHANGED <<peer, inflight, obs>>

\* verify2FALogin with its login events: recordLogin(req, true, ...) and
\* save() on success, no recordLogin on any failure
Verify2FALoginRecorded ==
  /\ \E r \in VerifyLoginRequests :
       /\ verify2FALogin(r.tempUserId, r.twoFactorToken, r.trustDevice)
       /\ loginHistory' =
            IF tokenSeq' # tokenSeq
            THEN recordLogin(loginHistory, TRUE,
                             IF r.twoFactorToken.kind = "backup"
                             THEN "2FA backup code" ELSE "2FA TOTP")
            ELSE loginHistory
  /\ UNCHANGED <<peer, inflight, obs>>

\* the account as the first request finds it: no login event yet, or the
\* events of earlier successful logins
InitHistory ==
  /\ user \in { [password |-> GoodPassword, isVerified |-> v,
                 accountStatus |-> "active",
                 accountLockout |-> [failedAttempts |-> 0, lockUntil |-> NoDate],
                 twoFactorAuth |-> EmptyTwoFactorAuth,
                 refreshTokens |-> <<>>,
                 updatedAt |-> 0,
                 passwordChangedAt |-> 0,
                 resetPasswordToken |-> NoHash, resetPasswordExpires |-> NoDate,
                 otpCode |-> NoOtp, otpExpiresAt |-> NoDate] : v \in BOOLEAN }
  /\ now = 0
  /\ last = Reply("none", 0, "", 0)
  /\ genSeq = 0
  /\ tokenSeq = 0
  /\ peer = PeerSessions
  /\ loginHistory \in { EarlierEvents(n) :
                          n \in {0, LoginHistoryLimit - 1, LoginHistoryLimit} }
  /\ inflight = <<>>
  /\ obs = [wrongStreak |-> 0, lockedAt |-> NoDate, checkpoint |-> FALSE,
            startedAt |-> NoDate, failedCodes |-> 0, shown |-> 0,
            iat |-> <<>>, mailedAt |-> NoDate, changedWith |-> 0,
            accepted |-> 0, overlapped |-> FALSE, mailed |-> 0]

NextHistory ==
  \/ Tick
  \/ LoginRecorded
  \/ Enable2FA
  \/ Verify2FASetup
  \/ Verify2FALoginRecorded

SpecHistory == InitHistory /\ [][NextHistory]_vars

\* ------------------------------------------------------------ trusted devices
\* the document protect puts in req.user: User.findById without select, so
\* the password (select: false) is not loaded
protect(u) == [u EXCEPT !.password = ""]

\* a device id no trusted device has
UnknownDeviceId == sha256(<<"unknown", 0>>)

\* the ids a client can name: those of the listed devices and an unknown one
DeviceIds ==
  { user.twoFactorAuth.trustedDevices[i].deviceId :
      i \in 1..Len(user.twoFactorAuth.trustedDevices) } \cup {UnknownDeviceId}

\* trustedDevices.splice(deviceIndex, 1)
splice(devices, deviceIndex) ==
  SubSeq(devices, 1, deviceIndex - 1) \o SubSeq(devices, deviceIndex + 1, Len(devices))

\* DELETE /api/security/trusted-devices/:deviceId, body {password}
removeTrustedDevice(password, deviceId) ==
  LET devs == user.twoFactorAuth.trustedDevices
      hits == {i \in 1..Len(devs) : devs[i].deviceId = deviceId}
      deviceIndex == IF hits = {} THEN 0
                     ELSE CHOOSE k \in hits : \A j \in hits : k <= j
  IN
  /\ Authenticated
  /\ UNCHANGED <<now, genSeq, tokenSeq>>
  /\ IF password = ""
     THEN /\ last' = Reply("removeTrustedDevice", 400,
                           "Please provide your password to remove device", 0)
          /\ UNCHANGED user
     ELSE IF ~comparePassword(protect(user), password)
     THEN /\ last' = Reply("removeTrustedDevice", 401, "Invalid password", 0)
          /\ UNCHANGED user
     ELSE IF deviceIndex = 0
     THEN /\ last' = Reply("removeTrustedDevice", 404, "Trusted device not found", 0)
          /\ UNCHANGED user
     ELSE /\ user' = save([user EXCEPT !.twoFactorAuth.trustedDevices =
                             splice(@, deviceIndex)])
          /\ last' = Reply("removeTrustedDevice", 200,
                           "Trusted device removed successfully", 0)

RemoveTrustedDevice ==
  /\ \E password \in Passwords \cup {""}, deviceId \in DeviceIds :
       removeTrustedDevice(password, deviceId)
  /\ UNCHANGED <<peer, loginHistory, inflight, obs>>

\* the account with the second factor enabled by an earlier enrollment
InitTrust ==
  /\ user \in { [password |-> GoodPassword, isVerified |-> v,
                 accountStatus |-> "active",
                 accountLockout |-> [failedAttempts |-> 0, lockUntil |-> NoDate],
                 twoFactorAuth |->
                   [isEnabled |-> TRUE,
                    secret |-> encrypt2FASecret(1, 1),
                    tempSecret |-> NoSecret,
                    backupCodes |-> generateBackupCodes(1),
                    trustedDevices |-> <<>>,
                    failedAttempts |-> 0,
                    lockUntil |-> NoDate],
                 refreshTokens |-> <<>>,
                 updatedAt |-> 0,
                 passwordChangedAt |-> 0,
                 resetPasswordToken |-> NoHash, resetPasswordExpires |-> NoDate,
                 otpCode |-> NoOtp, otpExpiresAt |-> NoDate] : v \in BOOLEAN }
  /\ now = 0
  /\ last = Reply("none", 0, "", 0)
  /\ genSeq = 1
  /\ tokenSeq = 0
  /\ peer = PeerSessions
  /\ loginHistory = <<>>
  /\ inflight = <<>>
  /\ obs = [wrongStreak |-> 0, lockedAt |-> NoDate, checkpoint |-> FALSE,
            startedAt |-> NoDate, failedCodes |-> 0, shown |-> 0,
            iat |-> <<>>, mailedAt |-> NoDate, changedWith |-> 0,
            accepted |-> 0, overlapped |-> FALSE, mailed |-> 0]

NextTrust ==
  \/ Tick
  \/ Login
  \/ Verify2FALogin
  \/ RemoveTrustedDevice

SpecTrust == InitTrust /\ [][NextTrust]_vars

\* ------------------------------------------------------- concurrent logins
\* requests handled at the same time
MaxInflight == 2

\* the account's current code and a string that is no code
CurrentCode == [kind |-> "totp", secret |-> 1, delta |-> 0, batch |-> 0, idx |-> 0]

\* logins that get past the password check of an enabled account from an
\* untrusted device: one with a wrong code, one with the right code
ConcurrentRequests ==
  { [email |-> KnownEmail, password |-> GoodPassword, totpToken |-> t,
     trustDevice |-> FALSE, client |-> "c1"] : t \in {MalformedToken, CurrentCode} }

\* STEP 2 of login: User.findOne({ email }) loads the document the handler
\* works on from then on
LoginLoad ==
  /\ Len(inflight) < MaxInflight
  /\ \E r \in ConcurrentRequests :
       inflight' = Append(inflight, [request |-> r, doc |-> user])
  /\ UNCHANGED <<user, now, last, genSeq, tokenSeq, peer, loginHistory, obs>>

\* doc.save(): the paths whose value differs from the loaded one are $set
\* to the values of the in-memory document, pushed array elements are
\* appended; every other path of the stored document stays as it is
saveModified(stored, loaded, changed) ==
  [stored EXCEPT
     !.twoFactorAuth.failedAttempts =
        IF changed.twoFactorAuth.failedAttempts # loaded.twoFactorAuth.failedAttempts
        THEN changed.twoFactorAuth.failedAttempts ELSE @,
     !.twoFactorAuth.lockUntil =
        IF changed.twoFactorAuth.lockUntil # loaded.twoFactorAuth.lockUntil
        THEN changed.twoFactorAuth.lockUntil ELSE @,
     !.twoFactorAuth.backupCodes =
        [k \in 1..Len(@) |->
           IF /\ k <= Len(loaded.twoFactorAuth.backupCodes)
              /\ changed.twoFactorAuth.backupCodes[k].used
                   # loaded.twoFactorAuth.backupCodes[k].used
           THEN [@[k] EXCEPT !.used = changed.twoFactorAuth.backupCodes[k].used]
           ELSE @[k]],
     !.refreshTokens = @ \o SubSeq(changed.refreshTokens,
                                   Len(loaded.refreshTokens) + 1,
                                   Len(changed.refreshTokens)),
     !.updatedAt = now]

\* STEPS 3 to 6 of login on the loaded document, for an enabled account and
\* an untrusted device: a failed code is counted and saved, a valid code
\* resets the counter, stores the refresh token and is saved
LoginFinish ==
  \E i \in 1..Len(inflight) :
    LET r == inflight[i].request
        doc == inflight[i].doc
        isValidToken == verifyTotpToken(r.totpToken, doc.twoFactorAuth.secret)
        failed == handleTwoFactorFailedAttempt(doc)
        passed == [resetTwoFactorFailedAttempts(doc) EXCEPT
                     !.refreshTokens = Append(@, [token |-> 0])]
        tokens == generateTokens(tokenSeq)
    IN
    /\ inflight' = SubSeq(inflight, 1, i - 1) \o SubSeq(inflight, i + 1, Len(inflight))
    /\ UNCHANGED <<now, genSeq, peer, loginHistory>>
    /\ IF ~isValidToken
       THEN /\ doc.twoFactorAuth.failedAttempts < MaxFailed
            /\ obs.failedCodes < MaxStreak
            /\ user' = saveModified(user, doc, failed)
            /\ last' = Reply("login", 401, "Invalid two-factor authentication code", 0)
            /\ obs' = [obs EXCEPT !.failedCodes = @ + 1]
            /\ UNCHANGED tokenSeq
       ELSE /\ tokenSeq < MaxMint
            /\ user' = saveModified(user, doc, passed)
            /\ tokenSeq' = tokens.refreshToken
            /\ last' = Reply("login", 200, "Login successful", tokens.refreshToken)
            /\ obs' = [obs EXCEPT !.failedCodes = 0]

NextConcurrent ==
  \/ Tick
  \/ LoginLoad
  \/ LoginFinish

SpecConcurrent == InitTrust /\ [][NextConcurrent]_vars

\* ------------------------------------ overlapping 2FA login completions
\* the first recovery code of the account, unused so far
RecoveryCode == [kind |-> "backup", secret |-> 0, delta |-> 0, batch |-> 1, idx |-> 1]

\* completions of one account's login: with the recovery code, with the
\* current code of the authenticator
ConcurrentVerifications ==
  { [tempUserId |-> KnownEmail, twoFactorToken |-> t, trustDevice |-> FALSE] :
      t \in {RecoveryCode, CurrentCode} }

\* User.findById(tempUserId).select(...) loads the document the handler
\* works on from then on
Verify2FALoad ==
  /\ Len(inflight) < MaxInflight
  /\ \E r \in ConcurrentVerifications :
       inflight' = Append(inflight, [request |-> r, doc |-> user])
  /\ UNCHANGED <<user, now, last, genSeq, tokenSeq, peer, loginHistory, obs>>

\* the rest of verify2FALogin on the loaded document.  accepted counts the
\* completions the recovery code was accepted in; overlapped tells that a
\* completion with the recovery code finished while another one was loaded
Verify2FAFinish ==
  \E i \in 1..Len(inflight) :
    LET r == inflight[i].request
        doc == inflight[i].doc
        twoFactorToken == r.twoFactorToken
        codes == doc.twoFactorAuth.backupCodes
        totpOk == verifyTotpToken(twoFactorToken, doc.twoFactorAuth.secret)
        lookupThrows ==
          /\ ~InScope("hashBackupCode")
          /\ \E k \in 1..Len(codes) : ~codes[k].used
        matches == {k \in 1..Len(codes) :
                      /\ ~codes[k].used
                      /\ twoFactorToken.kind = "backup"
                      /\ codes[k].code = sha256(<<twoFactorToken.batch, twoFactorToken.idx>>)}
        backupCodeIndex == IF matches = {} THEN 0
                           ELSE CHOOSE k \in matches : \A j \in matches : k <= j
        isValidToken == totpOk \/ backupCodeIndex # 0
        isBackupCode == ~totpOk /\ backupCodeIndex # 0
        marked == IF isBackupCode
                  THEN [doc EXCEPT !.twoFactorAuth.backupCodes[backupCodeIndex].used = TRUE]
                  ELSE doc
        counted == [doc EXCEPT !.twoFactorAuth.failedAttempts = @ + 1]
        failed == IF counted.twoFactorAuth.failedAttempts >= TwoFactorMaxAttempts
                  THEN [counted EXCEPT !.twoFactorAuth.lockUntil =
                                          now + TwoFactorLockMinutes]
                  ELSE counted
        verified == resetTwoFactorFailedAttempts(marked)
        tokens == generateTokens(tokenSeq)
        others == \E j \in 1..Len(inflight) :
                    j # i /\ inflight[j].request.twoFactorToken = RecoveryCode
        seen == [obs EXCEPT !.overlapped =
                   @ \/ (twoFactorToken = RecoveryCode /\ others)]
    IN
    /\ inflight' = SubSeq(inflight, 1, i - 1) \o SubSeq(inflight, i + 1, Len(inflight))
    /\ UNCHANGED <<now, genSeq, peer, loginHistory>>
    /\ IF ~totpOk /\ lookupThrows
       THEN /\ last' = Reply("verify2FALogin", 500, "2FA verification failed", 0)
            /\ obs' = seen
            /\ UNCHANGED <<user, tokenSeq>>
       ELSE IF ~isValidToken
       THEN /\ doc.twoFactorAuth.failedAttempts < MaxFailed
            /\ user' = saveModified(user, doc, failed)
            /\ last' = IF failed.twoFactorAuth.failedAttempts >= TwoFactorMaxAttempts
                       THEN Reply("verify2FALogin", 423,
                              "Account locked due to too many failed 2FA attempts. Try again in 15 minutes.", 0)
                       ELSE Reply("verify2FALogin", 401, "Invalid 2FA token", 0)
            /\ obs' = seen
            /\ UNCHANGED tokenSeq
       ELSE /\ tokenSeq < MaxMint
            /\ user' = saveModified(user, doc, verified)
            /\ tokenSeq' = tokens.refreshToken
            /\ last' = Reply("verify2FALogin", 200,
                             "Login successful with 2FA verification", tokens.refreshToken)
            /\ obs' = [seen EXCEPT !.accepted =
                         IF isBackupCode THEN @ + 1 ELSE @]

NextRecovery ==
  \/ Tick
  \/ Verify2FALoad
  \/ Verify2FAFinish

SpecRecovery == InitTrust /\ [][NextRecovery]_vars

\* ------------------------------------------------------------ clock drift
\* codes of the account's secret for every time step up to MaxDrift steps
\* before or after the current one
DriftTokens ==
  { [kind |-> "totp", secret |-> 1, delta |-> d, batch |-> 0, idx |-> 0] :
      d \in (0 - MaxDrift)..MaxDrift }

\* login with the right password and a code of any of these steps
LoginDrifted ==
  /\ \E t \in DriftTokens, trustDevice \in BOOLEAN, client \in Clients :
       login(KnownEmail, GoodPassword, t, trustDevice, client)
  /\ UNCHANGED <<peer, loginHistory, inflight, obs>>

NextTotp ==
  \/ Tick
  \/ LoginDrifted

SpecTotp == InitTrust /\ [][NextTotp]_vars

\* ----------------------------------------------------------- secret codec
\* The codec on its own: a secret is generated and its encryption stored as
\* the pending secret, submitted codes are verified against the stored
\* value, and the stored value is decrypted again.
MaxSecret == 4
MaxIv == 3

\* base32 secrets speakeasy.generateSecret can return, and the values
\* crypto.randomBytes(16) can return for the prefix of the stored string
CodecSecrets == 1..MaxSecret
CodecIvs == 1..MaxIv

CodecTokens ==
  { [kind |-> "totp", secret |-> s, delta |-> d, batch |-> 0, idx |-> 0] :
      s \in CodecSecrets, d \in Drifts }

\* twoFactorData = generateTwoFactorSecret(user);
\* user.twoFactorAuth.tempSecret = encryptSecret(twoFactorData.secret)
SecretStored ==
  /\ \E secret \in CodecSecrets, iv \in CodecIvs :
       /\ user' = save([user EXCEPT
              !.twoFactorAuth.tempSecret = encrypt2FASecret(secret, iv)])
       /\ obs' = [obs EXCEPT !.shown = secret]
  /\ last' = Reply("encryptSecret", 200, "", 0)
  /\ UNCHANGED <<now, genSeq, tokenSeq, peer, loginHistory, inflight>>

\* verifyTotpToken(token, user.twoFactorAuth.tempSecret)
CodeVerified ==
  /\ \E token \in CodecTokens :
       last' = Reply("verifyTotpToken",
                     IF verifyTotpToken(token, user.twoFactorAuth.tempSecret)
                     THEN 200 ELSE 400,
                     "", token.secret)
  /\ UNCHANGED <<user, now, genSeq, tokenSeq, peer, loginHistory, inflight, obs>>

\* decrypt2FASecret(user.twoFactorAuth.tempSecret); 500 for the AppError
SecretDecrypted ==
  /\ user.twoFactorAuth.tempSecret # NoSecret
  /\ LET secret == decrypt2FASecret(user.twoFactorAuth.tempSecret)
     IN last' = Reply("decrypt2FASecret", IF secret = 0 THEN 500 ELSE 200,
                      "", secret)
  /\ UNCHANGED <<user, now, genSeq, tokenSeq, peer, loginHistory, inflight, obs>>

NextCodec ==
  \/ Tick
  \/ SecretStored
  \/ CodeVerified
  \/ SecretDecrypted

SpecCodec == Init /\ [][NextCodec]_vars

\* --------------------------------------------- password change and reset
ResetTokenMinutes == 10

\* req.body.token left out
NoResetToken == 0

\* reset tokens a client can present: crypto.randomBytes(32) of the first,
\* second, ... forgotPassword
ResetTokens == 1..MaxGen

createPasswordResetToken(u, resetToken) ==
  [u EXCEPT !.resetPasswordToken = sha256(resetToken),
            !.resetPasswordExpires = now + ResetTokenMinutes]

\* POST /api/auth/forgot-password, body {email}; the plain token genSeq + 1
\* goes out by mail
forgotPassword(email) ==
  IF email = ""
  THEN /\ last' = Reply("forgotPassword", 400, "Email is required", 0)
       /\ UNCHANGED <<user, peer, now, genSeq, tokenSeq>>
  ELSE IF email # KnownEmail
  THEN /\ last' = Reply("forgotPassword", 404, "User not found", 0)
       /\ UNCHANGED <<user, peer, now, genSeq, tokenSeq>>
  ELSE /\ genSeq < MaxGen
       /\ genSeq' = genSeq + 1
       /\ user' = save(createPasswordResetToken(user, genSeq + 1))
       /\ last' = Reply("forgotPassword", 200,
                        "Password reset link sent to your email.", 0)
       /\ UNCHANGED <<peer, now, tokenSeq>>

\* variant of findByResetToken that matches the token even after its expiry
findByResetToken_IgnoringExpiry(u, hashedToken) ==
  u.resetPasswordToken = hashedToken

\* User.findOne({ resetPasswordToken: hashedToken,
\*                resetPasswordExpires: { $gt: Date.now() } })
findByResetToken(u, hashedToken) ==
  /\ u.resetPasswordToken = hashedToken
  /\ u.resetPasswordExpires > now

\* POST /api/auth/reset-password, body {token, password, confirmPassword}
resetPassword(token, password, confirmPassword) ==
  LET hashedToken == sha256(token)
      updated == save([user EXCEPT !.password = password,
                                   !.resetPasswordToken = NoHash,
                                   !.resetPasswordExpires = NoDate,
                                   !.passwordChangedAt = now])
      cleared == save(invalidateRefreshTokens(updated))
      tokens == generateTokens(tokenSeq)
  IN
  /\ UNCHANGED <<peer, now, genSeq>>
  /\ IF token = NoResetToken \/ password = "" \/ confirmPassword = ""
     THEN /\ last' = Reply("resetPassword", 400, "All fields are required", 0)
          /\ UNCHANGED <<user, tokenSeq>>
     ELSE IF password # confirmPassword
     THEN /\ last' = Reply("resetPassword", 400, "Passwords do not match", 0)
          /\ UNCHANGED <<user, tokenSeq>>
     ELSE IF ~findByResetToken(user, hashedToken)
     THEN /\ last' = Reply("resetPassword", 400, "Token is invalid or has expired", 0)
          /\ UNCHANGED <<user, tokenSeq>>
     ELSE IF ~user.isVerified
     THEN /\ last' = Reply("resetPassword", 401, "Please verify your email first", 0)
          /\ UNCHANGED <<user, tokenSeq>>
     ELSE /\ tokenSeq < MaxMint
          /\ user' = save(addRefreshToken(cleared, tokens.refreshToken))
          /\ tokenSeq' = tokens.refreshToken
          /\ last' = Reply("resetPassword", 200,
                           "Password reset successful! You are now logged in.",
                           tokens.refreshToken)

\* Authorization header left out
NoAccessToken == 0

\* bearer tokens a client can present: the access token of the first,
\* second, ... token pair; one never minted is not signed by the service
AccessTokens == 1..MaxMint

\* jwt.sign stamps iat, the clock reading in whole seconds at which the
\* token was signed; changedPasswordAfter cuts passwordChangedAt down to whole
\* seconds too, so a clock reading is one second in this comparison and two
\* requests answered within it carry the same timestamp
iat(token) == obs.iat[token]

changedPasswordAfter(u, JWTTimestamp) ==
  IF u.passwordChangedAt # NoDate
  THEN JWTTimestamp < u.passwordChangedAt
  ELSE FALSE

\* the protect middleware in front of a protected route; 200 stands for
\* next() with req.user set
protectRoute(token) ==
  /\ UNCHANGED <<user, peer, now, genSeq, tokenSeq>>
  /\ IF token = NoAccessToken
     THEN last' = Reply("protect", 401,
                        "You are not logged in! Please log in to access", 0)
     ELSE IF token > Len(obs.iat)
     THEN last' = Reply("protect", 401, "Invalid token. Please log in again.", 0)
     ELSE IF changedPasswordAfter(user, iat(token))
     THEN last' = Reply("protect", 401,
                        "Password changed recently. Please log in again.", 0)
     ELSE last' = Reply("protect", 200, "", token)

\* the token pair of a response is signed at the current clock reading;
\* changedWith is the pair returned by the most recent password change
Signed ==
  obs' = IF tokenSeq' # tokenSeq
         THEN [obs EXCEPT !.iat = Append(@, now),
                          !.changedWith =
                             IF last'.op \in {"changePassword", "resetPassword"}
                             THEN tokenSeq' ELSE @]
         ELSE obs

LoginSigned ==
  /\ \E email \in Emails, password \in Passwords :
       loginPasswordOnly(email, password)
  /\ Signed
  /\ UNCHANGED <<peer, loginHistory, inflight>>

ChangePasswordSigned ==
  /\ \E currentPassword \in Passwords, newPassword \in Passwords,
        confirmPassword \in Passwords :
       changePassword(currentPassword, newPassword, confirmPassword)
  /\ Signed
  /\ UNCHANGED <<loginHistory, inflight>>

\* mailedAt is the time the most recent reset token was made
ForgotPassword ==
  /\ \E email \in Emails : forgotPassword(email)
  /\ obs' = IF genSeq' # genSeq THEN [obs EXCEPT !.mailedAt = now] ELSE obs
  /\ UNCHANGED <<loginHistory, inflight>>

ResetPassword ==
  /\ \E token \in ResetTokens, password \in Passwords,
        confirmPassword \in Passwords :
       resetPassword(token, password, confirmPassword)
  /\ Signed
  /\ UNCHANGED <<loginHistory, inflight>>

ProtectRoute ==
  /\ \E token \in AccessTokens : protectRoute(token)
  /\ UNCHANGED <<loginHistory, inflight, obs>>

\* Password endpoints, with the sessions of earlier logins in place
NextPassword ==
  \/ Tick
  \/ LoginSigned
  \/ ChangePasswordSigned
  \/ ForgotPassword
  \/ ResetPassword
  \/ RefreshToken
  \/ ProtectRoute

SpecPassword == InitSession /\ [][NextPassword]_vars

\* ------------------------------------------------- email verification
OtpMinutes == 10
MaxOtp == 2

\* values Math.floor(100000 + Math.random() * 900000) can take
OtpCodes == 1..MaxOtp

\* text that is not 6 digits
MalformedOtp == 0 - 1

\* what a client can send as otp: nothing, malformed text, a 6-digit code
SubmittedOtps == {NoOtp, MalformedOtp} \cup OtpCodes

generateOTP(u, otp) ==
  [u EXCEPT !.otpCode = otp, !.otpExpiresAt = now + OtpMinutes]

\* variant of the verifyOTP method that accepts a code after its expiry
userVerifyOTP_IgnoringExpiry(u, candidateOTP) ==
  IF u.otpCode = NoOtp \/ u.otpExpiresAt = NoDate THEN FALSE
  ELSE u.otpCode = candidateOTP

\* userSchema.methods.verifyOTP
userVerifyOTP(u, candidateOTP) ==
  IF u.otpCode = NoOtp \/ u.otpExpiresAt = NoDate THEN FALSE
  ELSE IF u.otpExpiresAt < now THEN FALSE
  ELSE u.otpCode = candidateOTP

clearOTP(u) ==
  [u EXCEPT !.otpCode = NoOtp, !.otpExpiresAt = NoDate]

\* POST /api/auth/register, body {name, email, password}; `otp` is the code
\* generateOTP draws.  An email without an account gets an account of its
\* own, which is not the one followed here.
register(email, password, otp) ==
  /\ UNCHANGED <<peer, now, genSeq, tokenSeq>>
  /\ IF email = "" \/ password = ""
     THEN /\ last' = Reply("register", 400, "Name, Email, and Password are required.", 0)
          /\ UNCHANGED user
     ELSE IF email # KnownEmail
     THEN /\ last' = Reply("register", 201,
                 "Registration successful! Please check your email for verification code,", 0)
          /\ UNCHANGED user
     ELSE IF ~user.isVerified
     THEN /\ user' = save(generateOTP(user, otp))
          /\ last' = Reply("register", 200,
                 "Account exists but not verified. New OTP sent to your email.", 0)
     ELSE /\ last' = Reply("register", 400,
                 "An Account with this email already exists.", 0)
          /\ UNCHANGED user

\* POST /api/auth/resend-otp, body {email}
resendOTP(email, otp) ==
  /\ UNCHANGED <<peer, now, genSeq, tokenSeq>>
  /\ IF email = ""
     THEN /\ last' = Reply("resendOTP", 400, "Email is required", 0)
          /\ UNCHANGED user
     ELSE IF email # KnownEmail
     THEN /\ last' = Reply("resendOTP", 404, "User not found", 0)
          /\ UNCHANGED user
     ELSE IF user.isVerified
     THEN /\ last' = Reply("resendOTP", 400, "Account is already verified", 0)
          /\ UNCHANGED user
     ELSE /\ user' = save(generateOTP(user, otp))
          /\ last' = Reply("resendOTP", 200,
                           "New OTP sent to your email successfully.", 0)

\* POST /api/auth/verify-otp, body {email, otp}
verifyOTP(email, otp) ==
  LET tokens == generateTokens(tokenSeq)
      verified == save(clearOTP([user EXCEPT !.isVerified = TRUE]))
  IN
  /\ UNCHANGED <<peer, now, genSeq>>
  /\ IF email = "" \/ otp = NoOtp
     THEN /\ last' = Reply("verifyOTP", 400, "Email and OTP are required.", 0)
          /\ UNCHANGED <<user, tokenSeq>>
     ELSE IF otp = MalformedOtp
     THEN /\ last' = Reply("verifyOTP", 400, "Invalid OTP format. OTP must be 6 digits", 0)
          /\ UNCHANGED <<user, tokenSeq>>
     ELSE IF email # KnownEmail
     THEN /\ last' = Reply("verifyOTP", 404, "User not found.", 0)
          /\ UNCHANGED <<user, tokenSeq>>
     ELSE IF user.isVerified
     THEN /\ last' = Reply("verifyOTP", 400, "Account is already verified.", 0)
          /\ UNCHANGED <<user, tokenSeq>>
     ELSE IF ~userVerifyOTP(user, otp)
     THEN /\ last' = Reply("verifyOTP", 400, "Invalid or Expired OTP.", 0)
          /\ UNCHANGED <<user, tokenSeq>>
     ELSE /\ tokenSeq < MaxMint
          /\ user' = save(addRefreshToken(verified, tokens.refreshToken))
          /\ tokenSeq' = tokens.refreshToken
          /\ last' = Reply("verifyOTP", 200,
                           "Email verified successfully! Welcome aboard.",
                           tokens.refreshToken)

\* mailed is the code of the most recent OTP mail, mailedAt its time
Mailed(otp) ==
  obs' = IF user'.otpCode # user.otpCode \/ user'.otpExpiresAt # user.otpExpiresAt
         THEN [obs EXCEPT !.mailed = otp, !.mailedAt = now]
         ELSE obs

Register ==
  /\ \E email \in Emails, password \in Passwords, otp \in OtpCodes :
       register(email, password, otp) /\ Mailed(otp)
  /\ UNCHANGED <<loginHistory, inflight>>

ResendOTP ==
  /\ \E email \in Emails, otp \in OtpCodes :
       resendOTP(email, otp) /\ Mailed(otp)
  /\ UNCHANGED <<loginHistory, inflight>>

VerifyOTP ==
  /\ \E email \in Emails, otp \in SubmittedOtps : verifyOTP(email, otp)
  /\ UNCHANGED <<loginHistory, inflight, obs>>

\* the account as register leaves it: unverified, its first code mailed
InitRegister ==
  /\ \E otp \in OtpCodes :
       /\ user = [password |-> GoodPassword, isVerified |-> FALSE,
                  accountStatus |-> "active",
                  accountLockout |-> [failedAttempts |-> 0, lockUntil |-> NoDate],
                  twoFactorAuth |-> EmptyTwoFactorAuth,
                  refreshTokens |-> <<>>,
                  updatedAt |-> 0,
                  passwordChangedAt |-> 0,
                  resetPasswordToken |-> NoHash, resetPasswordExpires |-> NoDate,
                  otpCode |-> otp, otpExpiresAt |-> OtpMinutes]
       /\ obs = [wrongStreak |-> 0, lockedAt |-> NoDate, checkpoint |-> FALSE,
                 startedAt |-> NoDate, failedCodes |-> 0, shown |-> 0,
                 iat |-> <<>>, mailedAt |-> 0, changedWith |-> 0,
                 accepted |-> 0, overlapped |-> FALSE, mailed |-> otp]
  /\ now = 0
  /\ last = Reply("register", 201,
                  "Registration successful! Please check your email for verification code,", 0)
  /\ genSeq = 0
  /\ tokenSeq = 0
  /\ peer = PeerSessions
  /\ loginHistory = <<>>
  /\ inflight = <<>>

NextRegister ==
  \/ Tick
  \/ Register
  \/ ResendOTP
  \/ VerifyOTP
  \/ LoginPasswordOnly

SpecRegister == InitRegister /\ [][NextRegister]_vars

\* ------------------------------------------------------ account status
AccountStatuses == {"active", "suspended", "banned", "pending"}

\* what an administrator can send as accountStatus
SubmittedStatuses == AccountStatuses \cup {"deleted"}

\* the administrator making the request, an account other than `user`
AdminId == "admin@example.com"

\* ids that can stand in the route: the account followed, no account, the
\* administrator's own
TargetIds == Emails \cup {AdminId}

\* PUT /api/admin/users/:id/status, body {accountStatus, reason}, sent by
\* an administrator
updateUserStatus(id, accountStatus) ==
  LET updated == [user EXCEPT !.accountStatus = accountStatus, !.updatedAt = now]
      cleared == IF accountStatus \in {"suspended", "banned"}
                 THEN [updated EXCEPT !.refreshTokens = <<>>]
                 ELSE updated
  IN
  /\ UNCHANGED <<peer, now, genSeq, tokenSeq>>
  /\ IF accountStatus \notin AccountStatuses
     THEN /\ last' = Reply("updateUserStatus", 400,
                 "Invalid status. Must be active, suspended, banned, or pending", 0)
          /\ UNCHANGED user
     ELSE IF id \notin {KnownEmail, AdminId}
     THEN /\ last' = Reply("updateUserStatus", 404, "User not found", 0)
          /\ UNCHANGED user
     ELSE IF id = AdminId
     THEN /\ last' = Reply("updateUserStatus", 400,
                 "You cannot change your own account status", 0)
          /\ UNCHANGED user
     ELSE /\ user' = save(cleared)
          /\ last' = Reply("updateUserStatus", 200, "User account " \o
                 (IF accountStatus = "active" THEN "activated" ELSE accountStatus), 0)

UpdateUserStatus ==
  /\ \E id \in TargetIds, accountStatus \in SubmittedStatuses :
       updateUserStatus(id, accountStatus)
  /\ UNCHANGED <<loginHistory, inflight, obs>>

NextStatus ==
  \/ UpdateUserStatus
  \/ LoginPasswordOnly
  \/ Login
  \/ RefreshToken

SpecStatus == InitSession /\ [][NextStatus]_vars




\* ==================================================================== claims
\* caller-visible outcomes
SecondFactorRequired == Reply("login", 200, "Two-factor authentication required", 0)

InvalidCredentials(op) == Reply(op, 401, "Invalid email or password", 0)

AuthenticatedSession(r) == r.status = 200 /\ r.tokens # 0

\* the submitted token is the account's TOTP code for a step inside the
\* accepted window (stated on the stored secret, not through the verifier)
IsCodeOfAccount(u, token) ==
  /\ token.kind = "totp"
  /\ u.twoFactorAuth.secret # NoSecret
  /\ u.twoFactorAuth.secret.key = EncryptionKey
  /\ token.secret = u.twoFactorAuth.secret.text
  /\ token.delta >= 0 - TotpWindow
  /\ token.delta <= TotpWindow

\* the submitted token is an unused recovery code of the account
IsRecoveryCodeOfAccount(u, token) ==
  /\ token.kind = "backup"
  /\ \E i \in 1..Len(u.twoFactorAuth.backupCodes) :
       /\ ~u.twoFactorAuth.backupCodes[i].used
       /\ u.twoFactorAuth.backupCodes[i].code = sha256(<<token.batch, token.idx>>)

\* some active trusted-device entry of the post-state is absent or inactive
\* in the pre-state
DeviceGained ==
  \E i \in 1..Len(user'.twoFactorAuth.trustedDevices) :
    /\ user'.twoFactorAuth.trustedDevices[i].isActive
    /\ ~isDeviceTrusted(user, user'.twoFactorAuth.trustedDevices[i].deviceId)

\* C1: for an account whose second factor is disabled, a login with the
\* correct password never returns SecondFactorRequired.
C1_NoChallengeWhenDisabled ==
  [][(/\ ~user.twoFactorAuth.isEnabled
      /\ last'.msg = SecondFactorRequired.msg)
     => \A totpToken \in LoginTokens, trustDevice \in BOOLEAN, client \in Clients :
          ~login(KnownEmail, user.password, totpToken, trustDevice, client)]_vars

\* a session was issued by login to an account whose second factor is off
C1_Witness ==
  /\ last.op = "login"
  /\ AuthenticatedSession(last)
  /\ ~user.twoFactorAuth.isEnabled

\* C2: with the second factor enabled and no matching active trusted device,
\* login with the correct password and no code returns exactly
\* SecondFactorRequired; no token is issued, the refresh-token set is
\* unchanged and neither failure counter is incremented.
C2_CheckpointOnlyAsks ==
  [][user.twoFactorAuth.isEnabled
     => \A trustDevice \in BOOLEAN, client \in Clients :
          (/\ \A i \in 1..Len(user.twoFactorAuth.trustedDevices) :
                \/ user.twoFactorAuth.trustedDevices[i].deviceId
                     # generateDeviceId(client, now)
                \/ ~user.twoFactorAuth.trustedDevices[i].isActive
           /\ login(KnownEmail, user.password, NoToken, trustDevice, client))
          => /\ last' = SecondFactorRequired
             /\ tokenSeq' = tokenSeq
             /\ user'.refreshTokens = user.refreshTokens
             /\ user'.accountLockout = user.accountLockout
             /\ user'.twoFactorAuth.failedAttempts
                  = user.twoFactorAuth.failedAttempts]_vars

\* the checkpoint answer was given to an account with the second factor on
C2_Witness ==
  /\ last = SecondFactorRequired
  /\ user.twoFactorAuth.isEnabled

\* C3: once 5 consecutive wrong-password logins have been made, every login
\* in the following 30 minutes fails, whether its password is correct or not.
C3_Original ==
  [][\A email \in Emails, password \in Passwords, totpToken \in LoginTokens,
        trustDevice \in BOOLEAN, client \in Clients :
       (/\ obs.wrongStreak >= LoginMaxAttempts
        /\ now < obs.lockedAt + LoginLockMinutes
        /\ email = KnownEmail
        /\ login(email, password, totpToken, trustDevice, client))
       => /\ ~AuthenticatedSession(last')
          /\ tokenSeq' = tokenSeq
          /\ isLocked(user')]_vars

\* C5: a login ending in AuthenticatedSession leaves the failed-attempt
\* counter at zero and lock-until cleared, and the counter holds the
\* wrong-password logins made since the last AuthenticatedSession (up to the
\* threshold of 5).
C5_Original ==
  /\ (last.op = "login" /\ AuthenticatedSession(last))
       => /\ user.accountLockout.failedAttempts = 0
          /\ user.accountLockout.lockUntil = NoDate
  /\ obs.wrongStreak <= LoginMaxAttempts
       => user.accountLockout.failedAttempts = obs.wrongStreak

\* C6: a login with an unknown identifier and a login with the account's
\* identifier and a wrong password get the same reply, whatever the state
\* of the account.
C6_Original ==
  [][\A email \in Emails, password \in Passwords :
       (/\ email # KnownEmail \/ password # user.password
        /\ loginPasswordOnly(email, password))
       => last' = InvalidCredentials("loginPasswordOnly")]_vars

\* C7: a step that gains a trusted device is a login or a login-completion
\* request, and every request that makes it had the second factor demanded
\* and carried a code of the account; a request that only passes the
\* password check, fails the code check or is let through by a trusted
\* device gains none.
C7_TrustOnlyAfterSecondFactor ==
  [][DeviceGained
     => /\ last'.op \in {"login", "verify2FALogin"}
        /\ \A email \in Emails, password \in Passwords, totpToken \in LoginTokens,
              trustDevice \in BOOLEAN, client \in Clients :
             login(email, password, totpToken, trustDevice, client)
             => /\ email = KnownEmail
                /\ password = user.password
                /\ user.twoFactorAuth.isEnabled
                /\ ~isDeviceTrusted(user, generateDeviceId(client, now))
                /\ IsCodeOfAccount(user, totpToken)
        /\ \A tempUserId \in Emails, twoFactorToken \in SubmittedTokens,
              trustDevice \in BOOLEAN :
             verify2FALogin(tempUserId, twoFactorToken, trustDevice)
             => /\ tempUserId = KnownEmail
                /\ \/ IsCodeOfAccount(user, twoFactorToken)
                   \/ IsRecoveryCodeOfAccount(user, twoFactorToken)]_vars

\* a login has just stored the fingerprint of its request as trusted
C7_Witness ==
  /\ last.op = "login"
  /\ AuthenticatedSession(last)
  /\ \E client \in Clients : isDeviceTrusted(user, generateDeviceId(client, now))
  /\ \E i \in 1..Len(user.twoFactorAuth.trustedDevices) :
       user.twoFactorAuth.trustedDevices[i].lastUsed = now

\* C8: while the second factor stays enabled and the entry a client obtained
\* with trustDevice=true stays active, a login from that client with the
\* correct password and no code returns AuthenticatedSession.
C8_Original ==
  [][\A trustDevice \in BOOLEAN, client \in Clients :
       (/\ user.twoFactorAuth.isEnabled
        /\ \E t \in 0..now :
             isDeviceTrusted(user, generateDeviceId(client, t))
        /\ login(KnownEmail, user.password, NoToken, trustDevice, client))
       => AuthenticatedSession(last')]_vars

\* C9: tokens are issued only by a login that verified the password (and the
\* code, where the second factor is demanded) or by the completion step of a
\* flow whose password was verified at the SecondFactorRequired checkpoint.
C9_Original ==
  [][tokenSeq' # tokenSeq =>
       \/ \E totpToken \in LoginTokens, trustDevice \in BOOLEAN,
             client \in Clients :
            /\ login(KnownEmail, user.password, totpToken, trustDevice, client)
            /\ requiresSecondFactor(user, generateDeviceId(client, now))
                 => IsCodeOfAccount(user, totpToken)
       \/ /\ last'.op = "verify2FALogin"
          /\ obs.checkpoint]_vars

\* C10: a second-factor verification with a code that is neither the
\* account's TOTP code nor an unused recovery code adds one to the counter
\* and sets lock-until 15 minutes ahead exactly when the counter reaches 5;
\* one with a right code zeroes the counter and clears lock-until; lock-until
\* is set only when the counter is at least 5.
C10_Original ==
  [][/\ user'.twoFactorAuth.lockUntil # NoDate
          => user'.twoFactorAuth.failedAttempts >= TwoFactorMaxAttempts
     /\ \A totpToken \in LoginTokens \ {NoToken}, trustDevice \in BOOLEAN,
           client \in Clients :
          (/\ requiresSecondFactor(user, generateDeviceId(client, now))
           /\ login(KnownEmail, user.password, totpToken, trustDevice, client))
          => IF IsCodeOfAccount(user, totpToken)
             THEN /\ user'.twoFactorAuth.failedAttempts = 0
                  /\ user'.twoFactorAuth.lockUntil = NoDate
             ELSE /\ user'.twoFactorAuth.failedAttempts
                       = user.twoFactorAuth.failedAttempts + 1
                  /\ user'.twoFactorAuth.lockUntil =
                       IF user.twoFactorAuth.failedAttempts + 1
                            >= TwoFactorMaxAttempts
                       THEN now + TwoFactorLockMinutes
                       ELSE user.twoFactorAuth.lockUntil
     /\ \A twoFactorToken \in SubmittedTokens, trustDevice \in BOOLEAN :
          (/\ user.twoFactorAuth.isEnabled
           /\ verify2FALogin(KnownEmail, twoFactorToken, trustDevice))
          => IF \/ IsCodeOfAccount(user, twoFactorToken)
                \/ IsRecoveryCodeOfAccount(user, twoFactorToken)
             THEN /\ user'.twoFactorAuth.failedAttempts = 0
                  /\ user'.twoFactorAuth.lockUntil = NoDate
             ELSE /\ user'.twoFactorAuth.failedAttempts
                       = user.twoFactorAuth.failedAttempts + 1
                  /\ user'.twoFactorAuth.lockUntil =
                       IF user.twoFactorAuth.failedAttempts + 1
                            >= TwoFactorMaxAttempts
                       THEN now + TwoFactorLockMinutes
                       ELSE user.twoFactorAuth.lockUntil]_vars

\* C11: while the second-factor lock is active, no second-factor attempt,
\* through login or through the login-completion step, issues a session,
\* whatever code it carries.
C11_Original ==
  [][isTwoFactorLocked(user)
     => /\ \A totpToken \in LoginTokens \ {NoToken}, trustDevice \in BOOLEAN,
              client \in Clients :
             (/\ requiresSecondFactor(user, generateDeviceId(client, now))
              /\ login(KnownEmail, user.password, totpToken, trustDevice, client))
             => /\ ~AuthenticatedSession(last')
                /\ tokenSeq' = tokenSeq
        /\ \A twoFactorToken \in SubmittedTokens, trustDevice \in BOOLEAN :
             verify2FALogin(KnownEmail, twoFactorToken, trustDevice)
             => /\ ~AuthenticatedSession(last')
                /\ tokenSeq' = tokenSeq]_vars

C13_Original ==
  [][user.twoFactorAuth.isEnabled
     => \A twoFactorToken \in BackupTokens :
          verify2FALogin(KnownEmail, twoFactorToken, FALSE)
          => IF IsRecoveryCodeOfAccount(user, twoFactorToken)
             THEN /\ AuthenticatedSession(last')
                  /\ Len(user'.twoFactorAuth.backupCodes)
                       = Len(user.twoFactorAuth.backupCodes)
                  /\ \A i \in 1..Len(user.twoFactorAuth.backupCodes) :
                       /\ user'.twoFactorAuth.backupCodes[i].code
                            = user.twoFactorAuth.backupCodes[i].code
                       /\ user'.twoFactorAuth.backupCodes[i].used
                            = \/ user.twoFactorAuth.backupCodes[i].used
                              \/ user.twoFactorAuth.backupCodes[i].code
                                   = sha256(<<twoFactorToken.batch,
                                              twoFactorToken.idx>>)
             ELSE /\ ~AuthenticatedSession(last')
                  /\ user'.twoFactorAuth.backupCodes
                       = user.twoFactorAuth.backupCodes]_vars

\* C14: a confirmation made more than 10 minutes after the enable2FA request
\* that issued the pending secret fails as expired and leaves the second
\* factor disabled, whatever code it carries and whatever was saved since.
C14_Original ==
  [][(/\ user.twoFactorAuth.tempSecret # NoSecret
      /\ obs.startedAt # NoDate
      /\ now - obs.startedAt > SetupExpiryMinutes)
     => \A token \in SubmittedTokens :
          verify2FASetup(token)
          => /\ last'.msg = "2FA setup has expired. Please start setup again."
             /\ ~user'.twoFactorAuth.isEnabled]_vars

\* the submitted token is the code of the pending secret for a step inside
\* the accepted window (stated on the stored secret, not through the verifier)
IsCodeOfPending(u, token) ==
  /\ token.kind = "totp"
  /\ u.twoFactorAuth.tempSecret # NoSecret
  /\ u.twoFactorAuth.tempSecret.key = EncryptionKey
  /\ token.secret = u.twoFactorAuth.tempSecret.text
  /\ token.delta >= 0 - TotpWindow
  /\ token.delta <= TotpWindow

\* C15: a confirmation inside the window with a code of the pending secret
\* succeeds and leaves the second factor enabled, the former pending secret
\* as the permanent one, no pending secret, the failure counter at 0 with no
\* lock, and between 8 and 10 recovery codes, all unused.
C15_ConfirmActivates ==
  [][(/\ user.twoFactorAuth.tempSecret # NoSecret
      /\ now - user.updatedAt <= SetupExpiryMinutes)
     => \A token \in SubmittedTokens :
          (verify2FASetup(token) /\ IsCodeOfPending(user, token))
          => /\ last'.status = 200
             /\ user'.twoFactorAuth.isEnabled
             /\ user'.twoFactorAuth.secret = user.twoFactorAuth.tempSecret
             /\ user'.twoFactorAuth.tempSecret = NoSecret
             /\ user'.twoFactorAuth.failedAttempts = 0
             /\ user'.twoFactorAuth.lockUntil = NoDate
             /\ Len(user'.twoFactorAuth.backupCodes) >= 8
             /\ Len(user'.twoFactorAuth.backupCodes) <= 10
             /\ \A i \in 1..Len(user'.twoFactorAuth.backupCodes) :
                  ~user'.twoFactorAuth.backupCodes[i].used]_vars

\* an enrollment has just been confirmed
C15_Witness ==
  /\ last.op = "verify2FASetup"
  /\ last.status = 200
  /\ user.twoFactorAuth.isEnabled
  /\ user.twoFactorAuth.secret # NoSecret
  /\ Len(user.twoFactorAuth.backupCodes) = BackupCodeCount

\* C16: a pending secret is put in place only by enable2FA, which replaces
\* whatever was pending by a freshly generated secret; and every request
\* that turns the second factor on carries a code of the secret pending at
\* that moment, not of a discarded or a permanent one.
C16_OnlyLatestPendingConfirms ==
  [][/\ (/\ user'.twoFactorAuth.tempSecret # user.twoFactorAuth.tempSecret
         /\ user'.twoFactorAuth.tempSecret # NoSecret)
          => /\ last'.op = "enable2FA"
             /\ genSeq' = genSeq + 1
             /\ user'.twoFactorAuth.tempSecret.text = genSeq'
     /\ (~user.twoFactorAuth.isEnabled /\ user'.twoFactorAuth.isEnabled)
          => /\ last'.op = "verify2FASetup"
             /\ \A token \in SubmittedTokens :
                  verify2FASetup(token) => IsCodeOfPending(user, token)]_vars

\* a second pending secret, issued over a first one, has been confirmed
C16_Witness ==
  /\ last.op = "verify2FASetup"
  /\ last.status = 200
  /\ user.twoFactorAuth.isEnabled
  /\ user.twoFactorAuth.secret.text = 2
  /\ genSeq = 2
  /\ tokenSeq = 1

C18_FailedConfirmKeepsPending ==
  [][(last'.op = "verify2FASetup")
       => \A token \in SubmittedTokens :
            verify2FASetup(token)
              => /\ (user.twoFactorAuth.tempSecret = NoSecret)
                      => /\ last'.status = 400
                         /\ last'.msg = "No 2FA setup in progress. Please start setup first."
                         /\ user' = user
                 /\ (/\ user.twoFactorAuth.tempSecret # NoSecret
                     /\ now - user.updatedAt <= SetupExpiryMinutes
                     /\ ~IsCodeOfPending(user, token))
                      => /\ last'.status = 400
                         /\ last'.msg = "Invalid verification code. Please try again."
                         /\ ~user'.twoFactorAuth.isEnabled
                         /\ user'.twoFactorAuth.secret = NoSecret
                         /\ user'.twoFactorAuth.tempSecret = user.twoFactorAuth.tempSecret
                         /\ user'.twoFactorAuth.backupCodes = user.twoFactorAuth.backupCodes
                         /\ user'.updatedAt = user.updatedAt]_vars

\* a wrong code was refused and the enrollment is still pending
C18_Witness ==
  /\ last.op = "verify2FASetup"
  /\ last.msg = "Invalid verification code. Please try again."
  /\ ~user.twoFactorAuth.isEnabled
  /\ user.twoFactorAuth.tempSecret # NoSecret
  /\ Len(user.twoFactorAuth.backupCodes) = BackupCodeCount


\* C19: a request to switch the second factor off that carries a password
\* other than the account's, or the right password with a code that is
\* neither a current code of the permanent secret nor an unused recovery
\* code, is refused and leaves the second-factor data as it was.
C19_RefusedDisableChangesNothing ==
  [][(last'.op = "disable2FA")
       => \A password \in Passwords, confirmationCode \in Tokens :
            (/\ disable2FA(password, confirmationCode)
             /\ \/ password # user.password
                \/ /\ confirmationCode.kind # "none"
                   /\ ~IsCodeOfAccount(user, confirmationCode)
                   /\ ~IsRecoveryCodeOfAccount(user, confirmationCode))
              => /\ last'.status >= 400
                 /\ user'.twoFactorAuth = user.twoFactorAuth]_vars

\* a request against an enabled account was refused for its password or code
C19_Witness ==
  /\ last.op = "disable2FA"
  /\ last.status = 401
  /\ user.twoFactorAuth.isEnabled
  /\ user.twoFactorAuth.secret # NoSecret


\* C20: a successful request to switch the second factor off leaves the
\* second-factor data empty (flag off, no permanent or pending secret, no
\* recovery codes, no trusted devices, counter 0, no lock); while the flag
\* is off a login with the right password and no code is answered with a
\* session; and a new enrollment starts from no trusted device and from
\* recovery codes of its own fresh batch only.
C20_DisableWipesEverything ==
  [][/\ (user.twoFactorAuth.isEnabled /\ ~user'.twoFactorAuth.isEnabled)
          => /\ last'.op = "disable2FA"
             /\ last'.status = 200
             /\ user'.twoFactorAuth =
                  [isEnabled |-> FALSE, secret |-> NoSecret,
                   tempSecret |-> NoSecret, backupCodes |-> <<>>,
                   trustedDevices |-> <<>>, failedAttempts |-> 0,
                   lockUntil |-> NoDate]
     /\ (~user.twoFactorAuth.isEnabled /\ last'.op = "login")
          => \A r \in LoginRequests :
               (/\ login(r.email, r.password, r.totpToken, r.trustDevice, r.client)
                /\ r.email = KnownEmail
                /\ r.password = user.password
                /\ r.totpToken.kind = "none")
                 => AuthenticatedSession(last')
     /\ (~user.twoFactorAuth.isEnabled /\ genSeq' # genSeq)
          => /\ last'.op = "enable2FA"
             /\ genSeq' > genSeq
             /\ Len(user'.twoFactorAuth.trustedDevices) = 0
             /\ \A t \in BackupTokens :
                  IsRecoveryCodeOfAccount(user', t) => t.batch = genSeq']_vars

\* the second factor has just been switched off
C20_Witness ==
  /\ last.op = "disable2FA"
  /\ last.status = 200
  /\ ~user.twoFactorAuth.isEnabled
  /\ Len(user.twoFactorAuth.backupCodes) = 0

\* the submitted token is a recovery code stored on the account, used or not
IsStoredRecoveryCode(u, token) ==
  /\ token.kind = "backup"
  /\ \E i \in 1..Len(u.twoFactorAuth.backupCodes) :
       u.twoFactorAuth.backupCodes[i].code = sha256(<<token.batch, token.idx>>)

\* C21: a regeneration of the recovery codes replaces the whole set in one
\* step: the stored set then holds the full count of codes, all unused and
\* all of the new batch, so no code of the previous set is stored any more;
\* a request with another password than the account's is refused and leaves
\* the account as it was.
C21_RegenerateReplacesWholeSet ==
  [][/\ (user.twoFactorAuth.isEnabled /\ genSeq' # genSeq)
          => /\ last'.op = "regenerateBackupCodes"
             /\ last'.status = 200
             /\ Len(user'.twoFactorAuth.backupCodes) = BackupCodeCount
             /\ \A i \in 1..Len(user'.twoFactorAuth.backupCodes) :
                  ~user'.twoFactorAuth.backupCodes[i].used
             /\ \A t \in BackupTokens :
                  /\ IsStoredRecoveryCode(user', t) => t.batch = genSeq'
                  /\ IsStoredRecoveryCode(user, t) => t.batch < genSeq'
     /\ (last'.op = "regenerateBackupCodes")
          => \A password \in Passwords \cup {""} :
               (regenerateBackupCodes(password) /\ password # user.password)
                 => /\ last'.status >= 400
                    /\ user' = user
                    /\ genSeq' = genSeq]_vars

\* a regeneration has replaced the codes issued at enrollment
C21_Witness ==
  /\ last.op = "regenerateBackupCodes"
  /\ last.status = 200
  /\ user.twoFactorAuth.isEnabled
  /\ genSeq = 2
  /\ user.twoFactorAuth.secret.text = 1
  /\ user.twoFactorAuth.backupCodes[1].code = sha256(<<2, 1>>)

\* the presented token is in the active refresh-token set of the account
\* its claims name
IsActiveRefreshToken(token) ==
  IF token \in PeerTokens
  THEN \E i \in 1..Len(peer) : peer[i].token = token
  ELSE \E i \in 1..Len(user.refreshTokens) : user.refreshTokens[i].token = token

WithoutToken(before, after, token) ==
  IF \E i \in 1..Len(before) : before[i].token = token
  THEN \E k \in 1..Len(before) :
         /\ before[k].token = token
         /\ after = SubSeq(before, 1, k - 1) \o SubSeq(before, k + 1, Len(before))
  ELSE after = before

\* C23: a logout that presents a refresh token is answered with success; it
\* takes exactly that token out of the set of the account holding it, leaves
\* the other tokens of that account and the tokens of the other account as
\* they were, and changes nothing at all when no account holds the token.
C23_LogoutRemovesOnlyThatToken ==
  [][(last'.op = "logout")
       => \A token \in PresentedTokens :
            (logout(token) /\ token # NoRefreshToken)
              => /\ last'.status = 200
                 /\ WithoutToken(user.refreshTokens, user'.refreshTokens, token)
                 /\ WithoutToken(peer, peer', token)
                 /\ user' = [user EXCEPT !.refreshTokens = user'.refreshTokens,
                                         !.updatedAt = user'.updatedAt]
                 /\ (/\ \A i \in 1..Len(user.refreshTokens) :
                          user.refreshTokens[i].token # token
                     /\ \A i \in 1..Len(peer) : peer[i].token # token)
                      => user' = user /\ peer' = peer]_vars

\* the only session of the account has been logged out
C23_Witness ==
  /\ last.op = "logout"
  /\ last.status = 200
  /\ tokenSeq = 1
  /\ user.refreshTokens = <<>>
  /\ peer = PeerSessions
  /\ loginHistory = <<>>
  /\ inflight = <<>>

OneEventAppended(before, after) ==
  /\ after # <<>>
  /\ SubSeq(after, 1, Len(after) - 1) =
       IF Len(before) < LoginHistoryLimit THEN before ELSE Tail(before)

\* C25: the login history never holds more than 20 events; whenever it
\* changes, one event has been added at its end, the events already there
\* keep their content and order, and the oldest one is dropped when the
\* history was full.
C25_HistoryAppendOnlyBounded ==
  [][/\ Len(loginHistory) <= LoginHistoryLimit
     /\ Len(loginHistory') <= LoginHistoryLimit
     /\ (loginHistory' # loginHistory)
          => OneEventAppended(loginHistory, loginHistory')]_vars

\* two events have been recorded into a full history: the two oldest went
C25_Witness ==
  /\ Len(loginHistory) = LoginHistoryLimit
  /\ loginHistory[1].timestamp = 2 - LoginHistoryLimit
  /\ loginHistory[LoginHistoryLimit].timestamp >= 0
  /\ loginHistory[LoginHistoryLimit - 1].timestamp >= 0

\* C26: every login attempt that reaches the password check leaves exactly
\* one event in the persisted history, successful exactly when the attempt
\* was answered with a session.
C26_Original ==
  [][(last'.op = "login")
       => \A r \in LoginRequests :
            (/\ login(r.email, r.password, r.totpToken, r.trustDevice, r.client)
             /\ r.email = KnownEmail
             /\ r.password # "")
              => /\ OneEventAppended(loginHistory, loginHistory')
                 /\ loginHistory'[Len(loginHistory')].success
                      = AuthenticatedSession(last')]_vars

\* no two active entries of the list share a device id
UniqueActiveDevices(devices) ==
  \A i, j \in 1..Len(devices) :
    (i # j /\ devices[i].isActive /\ devices[j].isActive)
      => devices[i].deviceId # devices[j].deviceId

\* C27: no two active trusted devices of the account share a fingerprint
\* id; and trusting a fingerprint that is already listed refreshes that
\* entry (last used now, active) and adds none, while trusting a new one
\* adds exactly one entry.
C27_UniqueTrustedDevices ==
  /\ UniqueActiveDevices(user.twoFactorAuth.trustedDevices)
  /\ \A deviceId \in DeviceIds :
       LET before == user.twoFactorAuth.trustedDevices
           after == addTrustedDevice(user, deviceId).twoFactorAuth.trustedDevices
           listed == \E i \in 1..Len(before) : before[i].deviceId = deviceId
       IN /\ UniqueActiveDevices(after)
          /\ Len(after) = IF listed THEN Len(before) ELSE Len(before) + 1
          /\ \A i \in 1..Len(before) :
               IF before[i].deviceId = deviceId
               THEN /\ after[i].deviceId = deviceId
                    /\ after[i].lastUsed = now
                    /\ after[i].isActive
               ELSE after[i] = before[i]

\* two devices are trusted and time has passed since the first was used
C27_Witness ==
  /\ Len(user.twoFactorAuth.trustedDevices) = 2
  /\ user.twoFactorAuth.trustedDevices[1].isActive
  /\ user.twoFactorAuth.trustedDevices[2].isActive
  /\ user.twoFactorAuth.trustedDevices[1].lastUsed < now

\* C28: a removal request with a missing or wrong password, or naming an
\* unknown device, leaves the list of trusted devices as it is; one with
\* the account's password naming a listed device removes that device, which
\* no longer bypasses the second factor, and leaves the others as they are.
C28_Original ==
  [][(last'.op = "removeTrustedDevice")
       => \A password \in Passwords \cup {""}, deviceId \in DeviceIds :
            removeTrustedDevice(password, deviceId)
              => LET before == user.twoFactorAuth.trustedDevices
                     after == user'.twoFactorAuth.trustedDevices
                     listed == \E i \in 1..Len(before) : before[i].deviceId = deviceId
                 IN IF password = user.password /\ listed
                    THEN /\ last'.status = 200
                         /\ ~isDeviceTrusted(user', deviceId)
                         /\ Len(after) = Len(before) - 1
                         /\ \A i \in 1..Len(before) :
                              before[i].deviceId # deviceId
                                => \E j \in 1..Len(after) : after[j] = before[i]
                    ELSE /\ last'.status >= 400
                         /\ after = before]_vars

\* C29: after failed second-factor attempts the persisted failure counter
\* equals the number of failed attempts handled since the last successful
\* one, whatever the interleaving of the requests (two concurrent failures
\* raise it by 2), and the lock is set once that number reaches the
\* threshold.
C29_Original ==
  /\ obs.failedCodes > 0
       => user.twoFactorAuth.failedAttempts = obs.failedCodes
  /\ obs.failedCodes >= TwoFactorMaxAttempts
       => user.twoFactorAuth.lockUntil # NoDate

\* C30: at the second-factor check of a login, a code of the account's
\* secret is accepted exactly when its time step is at distance at most 1
\* from the current one; a code 2 or more steps away is refused.
C30_Original ==
  [][(last'.op = "login")
       => \A t \in DriftTokens, trustDevice \in BOOLEAN, client \in Clients :
            (/\ login(KnownEmail, GoodPassword, t, trustDevice, client)
             /\ user.twoFactorAuth.isEnabled
             /\ ~isDeviceTrusted(user, generateDeviceId(client, now)))
              => (AuthenticatedSession(last')
                    <=> (t.delta >= 0 - 1 /\ t.delta <= 1))]_vars

\* ---------------------------------------------------------------------------
\* C31: for every TOTP secret, decrypting the stored encryption of the secret
\* yields exactly that secret, so the current code of the secret shown at
\* enrollment verifies against the stored (encrypted) secret.
CodeOfShownSecret ==
  [kind |-> "totp", secret |-> obs.shown, delta |-> 0, batch |-> 0, idx |-> 0]

SessionIssuers == {"loginPasswordOnly", "login", "verify2FALogin"}

\* C32: every refresh token returned in an AuthenticatedSession (password-only
\* login, login with an inline code, login completed through the 2FA
\* verification step) is in the account's active refresh-token set when the
\* response is produced.
C32_Original ==
  (last.op \in SessionIssuers /\ AuthenticatedSession(last))
    => tokenExists(user.refreshTokens, last.tokens)

\* the two handlers that set a new password
PasswordSetters == {"changePassword", "resetPassword"}

C34_Original ==
  [][(last'.op = "protect")
       => \A token \in AccessTokens :
            (protectRoute(token) /\ token <= Len(obs.iat))
              => (last'.status = 200 <=> token >= obs.changedWith)]_vars

\* C39: a password-reset token is single-use and time-limited: a reset
\* succeeds only with the token of the most recent forgotPassword, within 10
\* minutes of its creation, and it clears the stored token; a reset that is
\* refused (token used before, replaced by a newer one, run out, or never
\* issued) leaves the account, its password included, as it was.
C39_ResetTokenSingleUseTimeLimited ==
  [][(last'.op = "resetPassword")
       => \A token \in ResetTokens, password \in Passwords,
             confirmPassword \in Passwords :
            resetPassword(token, password, confirmPassword)
              => /\ (last'.status = 200)
                      => /\ token = genSeq
                         /\ user.resetPasswordToken # NoHash
                         /\ obs.mailedAt # NoDate
                         /\ now - obs.mailedAt <= ResetTokenMinutes
                         /\ user'.password = password
                         /\ user'.resetPasswordToken = NoHash
                         /\ user'.resetPasswordExpires = NoDate
                 /\ (last'.status # 200)
                      => /\ user' = user
                         /\ tokenSeq' = tokenSeq]_vars

\* after two forgotPassword requests and one successful reset, a further
\* reset has been refused
C39_Witness ==
  /\ last.op = "resetPassword"
  /\ last.msg = "Token is invalid or has expired"
  /\ genSeq = 2
  /\ obs.changedWith = 1
  /\ user.password = BadPassword
  /\ user.resetPasswordToken = NoHash

C36_VerifiedOnlyByLatestCode ==
  [][/\ (~user.isVerified /\ user'.isVerified)
          => last'.op = "verifyOTP" /\ last'.status = 200
     /\ (~user.isVerified /\ tokenSeq' # tokenSeq)
          => last'.op = "verifyOTP" /\ user'.isVerified
     /\ (last'.op = "verifyOTP")
          => \A email \in Emails, otp \in SubmittedOtps :
               verifyOTP(email, otp)
                 => /\ (last'.status = 200)
                         => /\ ~user.isVerified
                            /\ otp = obs.mailed
                            /\ now - obs.mailedAt <= OtpMinutes
                            /\ user'.isVerified
                            /\ user'.otpCode = NoOtp
                            /\ user'.otpExpiresAt = NoDate
                    /\ (last'.status # 200)
                         => /\ user' = user
                            /\ tokenSeq' = tokenSeq
                            /\ last'.tokens = 0]_vars

\* the account has been verified with the code of a resend, after its first
\* code had run out
C36_Witness ==
  /\ last.op = "verifyOTP"
  /\ last.status = 200
  /\ user.isVerified
  /\ user.otpCode = NoOtp
  /\ obs.mailedAt = Granularity
  /\ now = Granularity
  /\ tokenSeq = 1

\* C37: no login issues tokens for an account that is still unverified: while
\* isVerified is false no login reply carries tokens and the refresh-token
\* set stays empty.
Logins == {"loginPasswordOnly", "login"}

C38_Original ==
  user.accountStatus \in {"suspended", "banned"}
    => /\ user.refreshTokens = <<>>
       /\ ~(last.op \in SessionIssuers /\ AuthenticatedSession(last))

====
